---- MODULE Spec2Model ----
(***************************************************************************)
(* Model of the filterable-table toolkit (AdvancedFilter.tsx, types.ts).   *)
(*                                                                         *)
(* Text is a sequence of one-character strings, so that patterns and cell  *)
(* values can be scanned character by character.  Column keys and tags     *)
(* are plain strings.                                                      *)
(***************************************************************************)
EXTENDS Integers, Sequences, FiniteSets, TLC

\* ------------------------------------------------------------------ bounds

\* most edits (structural or value) a run makes to the filter tree
MaxEdits == 3
\* most nodes below the root in a tree handed to the evaluator
EvalMaxNodes == 3
\* most rows in a raw collection handed to the table
MaxRows == 3
\* most resize drags a run starts
MaxDrags == 2
\* toggleColumn calls in a run
MaxToggles == 2
\* rows of props.data in the runs that change it
DataMaxRows == 2

\* ------------------------------------------------------------------ text

EmptyText == <<>>

\* String.prototype.toLowerCase on the alphabet the model uses
ToLowerCase(c) ==
    IF c = "A" THEN "a" ELSE IF c = "B" THEN "b" ELSE c

Digit(d) == <<"0", "1", "2", "3", "4", "5", "6", "7", "8", "9">>[d + 1]

\* String(n) for a natural number
RECURSIVE NumberToString(_)
NumberToString(n) ==
    IF n < 10 THEN <<Digit(n)>>
    ELSE NumberToString(n \div 10) \o <<Digit(n % 10)>>

\* ------------------------------------------------------------------ cell values

\* a cell of a row: a tagged value (Record<string, unknown>)
StrVal(s)  == [t |-> "string",    str |-> s,    num |-> 0, bool |-> FALSE]
NumVal(n)  == [t |-> "number",    str |-> <<>>, num |-> n, bool |-> FALSE]
BoolVal(b) == [t |-> "boolean",   str |-> <<>>, num |-> 0, bool |-> b]
NullVal    == [t |-> "null",      str |-> <<>>, num |-> 0, bool |-> FALSE]
Undefined  == [t |-> "undefined", str |-> <<>>, num |-> 0, bool |-> FALSE]

\* row[column]: a key the row does not have reads as undefined
RowGet(row, column) ==
    IF column \in DOMAIN row THEN row[column] ELSE Undefined

\* value === null || value === undefined ? "" : String(value)
StrValue(value) ==
    CASE value.t = "null"      -> EmptyText
      [] value.t = "undefined" -> EmptyText
      [] value.t = "string"    -> value.str
      [] value.t = "number"    -> NumberToString(value.num)
      [] value.t = "boolean"   -> IF value.bool THEN <<"t", "r", "u", "e">>
                                  ELSE <<"f", "a", "l", "s", "e">>

\* ------------------------------------------------------------------ RegExp

(* The subset of the RegExp grammar that the model's patterns use: literal  *)
(* characters, a leading "^" (start anchor) and "(" , which opens a group   *)
(* that no pattern of the model closes.                                     *)

\* new RegExp(source, flags) throws SyntaxError: an unterminated group
RegExpThrows(source) ==
    \E i \in 1..Len(source) : source[i] = "("

RegExpAnchored(source) == Len(source) > 0 /\ source[1] = "^"

RegExpLiteral(source) ==
    IF RegExpAnchored(source) THEN Tail(source) ELSE source

RegExpCharEq(a, b, flags) ==
    IF flags = "i" THEN ToLowerCase(a) = ToLowerCase(b) ELSE a = b

\* the literal of the pattern occurs in str at position k
RegExpMatchAt(lit, flags, str, k) ==
    /\ k + Len(lit) - 1 <= Len(str)
    /\ \A j \in 1..Len(lit) : RegExpCharEq(lit[j], str[k + j - 1], flags)

\* regex.test(str) of a RegExp without the g or y flag (no lastIndex state)
RegExpTest(source, flags, str) ==
    LET lit == RegExpLiteral(source) IN
    IF RegExpAnchored(source) THEN RegExpMatchAt(lit, flags, str, 1)
    ELSE \E k \in 1..(Len(str) + 1) : RegExpMatchAt(lit, flags, str, k)

\* ------------------------------------------------------------------ filter nodes

Condition(id, column, regex, caseSensitive) ==
    [id |-> id, type |-> "condition", column |-> column, regex |-> regex,
     caseSensitive |-> caseSensitive]

Group(id, operator, children) ==
    [id |-> id, type |-> "group", operator |-> operator, children |-> children]

\* createDefaultFilter(): an AND root with one empty condition
CreateDefaultFilter(rootId, conditionId) ==
    Group(rootId, "AND", <<Condition(conditionId, "", EmptyText, FALSE)>>)

\* JSON.parse(JSON.stringify(obj)): rebuilds the node from its JSON fields
RECURSIVE DeepClone(_)
DeepClone(node) ==
    IF node.type = "condition"
    THEN Condition(node.id, node.column, node.regex, node.caseSensitive)
    ELSE Group(node.id, node.operator,
               [i \in 1..Len(node.children) |-> DeepClone(node.children[i])])

\* ------------------------------------------------------------------ evaluator

\* how a call ends: it returns a boolean, or an exception leaves it
Returned(v) == [throws |-> FALSE, value |-> v]
Thrown == [throws |-> TRUE, value |-> FALSE]

\* the try block of evaluateNode's leaf branch
ConditionTry(node, row) ==
    LET flags == IF node.caseSensitive THEN "" ELSE "i" IN
    IF RegExpThrows(node.regex) THEN Thrown
    ELSE Returned(RegExpTest(node.regex, flags, StrValue(RowGet(row, node.column))))

\* the leaf branch with an empty pattern rejecting the row
EvaluateCondition_EmptyRejects(node, row) ==
    IF node.regex = EmptyText THEN Returned(FALSE)
    ELSE IF ConditionTry(node, row).throws THEN Returned(FALSE)
    ELSE ConditionTry(node, row)

\* the leaf branch without the try/catch: the SyntaxError leaves evaluateNode
EvaluateCondition_NoCatch(node, row) ==
    IF node.regex = EmptyText THEN Returned(TRUE)
    ELSE ConditionTry(node, row)

\* the leaf branch of evaluateNode: try { ... } catch { return false }
EvaluateCondition(node, row) ==
    IF node.regex = EmptyText THEN Returned(TRUE)
    ELSE IF ConditionTry(node, row).throws THEN Returned(FALSE)
    ELSE ConditionTry(node, row)

\* Array.prototype.every over the children's outcomes: stops at the first child
\* that fails, and an exception of a child it reaches leaves it
RECURSIVE Every(_, _, _)
Every(outcomes, i, n) ==
    IF i > n THEN Returned(TRUE)
    ELSE IF outcomes[i].throws THEN Thrown
    ELSE IF ~outcomes[i].value THEN Returned(FALSE)
    ELSE Every(outcomes, i + 1, n)

\* Array.prototype.some: stops at the first child that passes
RECURSIVE Some(_, _, _)
Some(outcomes, i, n) ==
    IF i > n THEN Returned(FALSE)
    ELSE IF outcomes[i].throws THEN Thrown
    ELSE IF outcomes[i].value THEN Returned(TRUE)
    ELSE Some(outcomes, i + 1, n)

\* the group branch without the check for an empty group
EvaluateGroup_NoEmptyCheck(operator, outcomes) ==
    IF operator = "AND" THEN Every(outcomes, 1, Len(outcomes))
    ELSE Some(outcomes, 1, Len(outcomes))

\* the group branch with every in the place of some
EvaluateGroup_OrNeedsAll(operator, outcomes) ==
    IF Len(outcomes) = 0 THEN Returned(TRUE)
    ELSE Every(outcomes, 1, Len(outcomes))

\* the group branch of evaluateNode, given the children's outcomes
EvaluateGroup(operator, outcomes) ==
    IF Len(outcomes) = 0 THEN Returned(TRUE)
    ELSE IF operator = "AND" THEN Every(outcomes, 1, Len(outcomes))
    ELSE Some(outcomes, 1, Len(outcomes))

\* the children Array.prototype.every or some calls back: up to and including
\* the first one whose outcome stops it
RECURSIVE Visited(_, _, _)
Visited(operator, outcomes, i) ==
    IF i > Len(outcomes) THEN {}
    ELSE IF outcomes[i].throws \/ outcomes[i].value = (operator = "OR") THEN {i}
    ELSE {i} \cup Visited(operator, outcomes, i + 1)

\* the sum of a sequence of numbers
RECURSIVE Sum(_)
Sum(numbers) ==
    IF numbers = <<>> THEN 0 ELSE Head(numbers) + Sum(Tail(numbers))

RECURSIVE EvaluateNode(_, _)

\* the number of new RegExp(...) evaluations in one call evaluateNode(node, row):
\* one in every condition the call reaches whose pattern is not empty
RECURSIVE RegExpConstructions(_, _)
RegExpConstructions(node, row) ==
    IF node.type = "condition"
    THEN IF node.regex = EmptyText THEN 0 ELSE 1
    ELSE LET outcomes == [i \in 1..Len(node.children) |->
                            EvaluateNode(node.children[i], row)]
             visited == Visited(node.operator, outcomes, 1)
         IN  Sum([i \in 1..Len(node.children) |->
                    IF i \in visited
                    THEN RegExpConstructions(node.children[i], row) ELSE 0])

EvaluateNode(node, row) ==
    IF node.type = "condition" THEN EvaluateCondition(node, row)
    ELSE EvaluateGroup(node.operator,
                       [i \in 1..Len(node.children) |->
                            EvaluateNode(node.children[i], row)])

\* ------------------------------------------------------------------ side table

\* filterValuesStore.set(id, {column, regex, caseSensitive})
SetFilterValue(st, id, column, regex, caseSensitive) ==
    [i \in (DOMAIN st) \cup {id} |->
        IF i = id
        THEN [column |-> column, regex |-> regex, caseSensitive |-> caseSensitive]
        ELSE st[i]]

\* filterValuesStore.delete(id)
DeleteFilterValue(st, id) ==
    [i \in (DOMAIN st) \ {id} |-> st[i]]

\* getFilterValue's effect on the store: a missing entry is created from the defaults
GetFilterValueStore(st, id, defaultColumn, defaultRegex, defaultCaseSensitive) ==
    IF id \in DOMAIN st THEN st
    ELSE SetFilterValue(st, id, defaultColumn, defaultRegex, defaultCaseSensitive)

\* getFilterValue that fills a missing entry with empty values instead of the
\* defaults it is handed
GetFilterValue_EmptyDefaults(st, id, defaultColumn, defaultRegex, defaultCaseSensitive) ==
    GetFilterValueStore(st, id, "", EmptyText, FALSE)[id]

\* getFilterValue's result
GetFilterValue(st, id, defaultColumn, defaultRegex, defaultCaseSensitive) ==
    GetFilterValueStore(st, id, defaultColumn, defaultRegex, defaultCaseSensitive)[id]

\* the conditions of a subtree, in the order a traversal visits them
RECURSIVE ConditionsOf(_)
RECURSIVE ConditionsOfList(_, _)
ConditionsOf(node) ==
    IF node.type = "condition" THEN <<node>>
    ELSE ConditionsOfList(node.children, 1)
ConditionsOfList(children, i) ==
    IF i > Len(children) THEN <<>>
    ELSE ConditionsOf(children[i]) \o ConditionsOfList(children, i + 1)

\* buildFilterWithValues: the tree with every condition's values read from the store
RECURSIVE BuildFilterWithValues(_, _)
BuildFilterWithValues(node, st) ==
    IF node.type = "condition"
    THEN LET values == GetFilterValue(st, node.id, node.column, node.regex,
                                      node.caseSensitive)
         IN  Condition(node.id, values.column, values.regex, values.caseSensitive)
    ELSE Group(node.id, node.operator,
               [i \in 1..Len(node.children) |->
                    BuildFilterWithValues(node.children[i], st)])

\* the store after buildFilterWithValues (getFilterValue fills in missing entries)
RECURSIVE BuildStoreList(_, _, _)
BuildStoreList(st, conds, i) ==
    IF i > Len(conds) THEN st
    ELSE BuildStoreList(
            GetFilterValueStore(st, conds[i].id, conds[i].column, conds[i].regex,
                                conds[i].caseSensitive),
            conds, i + 1)
BuildStore(node, st) == BuildStoreList(st, ConditionsOf(node), 1)

\* props.columns[0]?.value || ""
DefaultColumn(cols) == IF Len(cols) > 0 THEN cols[1] ELSE ""

\* the store after the condition editors of a tree are created: each calls
\* getFilterValue(id, condition.column || columns[0]?.value || "", regex, cs)
RECURSIVE RenderStoreList(_, _, _, _)
RenderStoreList(st, conds, i, cols) ==
    IF i > Len(conds) THEN st
    ELSE RenderStoreList(
            GetFilterValueStore(st, conds[i].id,
                IF conds[i].column # "" THEN conds[i].column ELSE DefaultColumn(cols),
                conds[i].regex, conds[i].caseSensitive),
            conds, i + 1, cols)
RenderStore(node, st, cols) == RenderStoreList(st, ConditionsOf(node), 1, cols)

\* removeFromStore: deletes the entry of every condition of the removed subtree
RECURSIVE RemoveFromStoreList(_, _, _)
RemoveFromStoreList(st, conds, i) ==
    IF i > Len(conds) THEN st
    ELSE RemoveFromStoreList(DeleteFilterValue(st, conds[i].id), conds, i + 1)

\* removeFromStore that does not descend into a removed group
RemoveFromStore_Shallow(node, st) ==
    IF node.type = "condition" THEN DeleteFilterValue(st, node.id) ELSE st

RemoveFromStore(node, st) == RemoveFromStoreList(st, ConditionsOf(node), 1)

\* ------------------------------------------------------------------ tree editing

\* the node a path of child indices leads to
RECURSIVE NodeAt(_, _)
NodeAt(node, path) ==
    IF path = <<>> THEN node
    ELSE NodeAt(node.children[Head(path)], Tail(path))

\* the paths to every node of a tree
RECURSIVE PathsOf(_)
PathsOf(node) ==
    {<<>>} \cup
    (IF node.type = "group"
     THEN UNION {{<<i>> \o p : p \in PathsOf(node.children[i])} :
                    i \in 1..Len(node.children)}
     ELSE {})

GroupPaths(root) == {p \in PathsOf(root) : NodeAt(root, p).type = "group"}
ConditionPaths(root) == {p \in PathsOf(root) : NodeAt(root, p).type = "condition"}

Front(path) == SubSeq(path, 1, Len(path) - 1)
Last(path) == path[Len(path)]

\* handleToggleOperator
HandleToggleOperator(group) ==
    LET updated == DeepClone(group) IN
    [updated EXCEPT !.operator = IF updated.operator = "AND" THEN "OR" ELSE "AND"]

\* handleAddCondition with unshift in the place of push
HandleAddCondition_Prepends(group, newId, defaultColumn) ==
    LET updated == DeepClone(group) IN
    [updated EXCEPT !.children =
        <<Condition(newId, defaultColumn, EmptyText, FALSE)>> \o @]

\* handleAddCondition
HandleAddCondition(group, newId, defaultColumn) ==
    LET updated == DeepClone(group) IN
    [updated EXCEPT !.children =
        Append(@, Condition(newId, defaultColumn, EmptyText, FALSE))]

\* handleAddGroup
HandleAddGroup(group, newConditionId, newGroupId, defaultColumn) ==
    LET updated == DeepClone(group) IN
    [updated EXCEPT !.children =
        Append(@, Group(newGroupId, "AND",
                        <<Condition(newConditionId, defaultColumn, EmptyText, FALSE)>>))]

\* handleRemoveChild: updated.children.splice(index, 1)
HandleRemoveChild(group, index) ==
    LET updated == DeepClone(group) IN
    [updated EXCEPT !.children =
        SubSeq(@, 1, index - 1) \o SubSeq(@, index + 1, Len(@))]

\* handleChildStructureChange, up the chain of onStructureChange callbacks to
\* the root: the new root that handleStructureChange receives
RECURSIVE OnStructureChange(_, _, _)
OnStructureChange(root, path, updated) ==
    IF path = <<>> THEN updated
    ELSE LET parent == DeepClone(NodeAt(root, Front(path))) IN
         OnStructureChange(root, Front(path),
                           [parent EXCEPT !.children[Last(path)] = updated])

\* ------------------------------------------------------------------ sorting

\* no column, no direction (null)
Null == "null"

\* SortState
SortState(column, direction) == [column |-> column, direction |-> direction]

\* x || null for a string x: the empty string is falsy
OrNull(x) == IF x = "" THEN Null ELSE x

\* no defaultSort prop
NoDefaultSort == SortState(Null, Null)

\* the initial value of the sortState signal:
\* {column: defaultSort?.column || null, direction: defaultSort?.direction || null}
InitialSortState(defaultSort) ==
    SortState(OrNull(IF defaultSort = NoDefaultSort THEN "" ELSE defaultSort.column),
              IF defaultSort = NoDefaultSort THEN Null ELSE defaultSort.direction)

\* handleSortChange with a click on another column keeping the direction
HandleSortChange_KeepsDirection(current, column) ==
    IF current.column = column
    THEN IF current.direction = "asc" THEN SortState(column, "desc")
         ELSE IF current.direction = "desc" THEN SortState(Null, Null)
         ELSE SortState(column, "asc")
    ELSE SortState(column, IF current.direction = Null THEN "asc"
                           ELSE current.direction)

\* handleSortChange(column): the sort state it sets
HandleSortChange(current, column) ==
    IF current.column = column
    THEN IF current.direction = "asc" THEN SortState(column, "desc")
         ELSE IF current.direction = "desc" THEN SortState(Null, Null)
         ELSE SortState(column, "asc")
    ELSE SortState(column, "asc")

\* the characters of the model's texts in collation order
CollationOrder ==
    <<"0", "1", "2", "3", "4", "5", "6", "7", "8", "9", "a", "b", "c", "e", "f",
      "i", "l", "o", "r", "s", "t", "u">>

CharRank(c) == CHOOSE k \in 1..Len(CollationOrder) : CollationOrder[k] = c

\* a.localeCompare(b) on lower-case texts: negative, zero or positive
RECURSIVE LocaleCompare(_, _)
LocaleCompare(a, b) ==
    IF a = <<>> /\ b = <<>> THEN 0
    ELSE IF a = <<>> THEN -1
    ELSE IF b = <<>> THEN 1
    ELSE IF CharRank(Head(a)) < CharRank(Head(b)) THEN -1
    ELSE IF CharRank(Head(a)) > CharRank(Head(b)) THEN 1
    ELSE LocaleCompare(Tail(a), Tail(b))

\* String(v).toLowerCase()
LowerString(value) ==
    [i \in 1..Len(StrValue(value)) |-> ToLowerCase(StrValue(value)[i])]

\* getRawValue(row, column)
GetRawValue(row, column) ==
    LET value == RowGet(row, column) IN
    IF value.t \in {"null", "undefined"} THEN StrVal(EmptyText)
    ELSE IF value.t \in {"number", "boolean"} THEN value
    ELSE StrVal(StrValue(value))

\* the comparison of two raw values, before the direction is applied
Comparison(aVal, bVal) ==
    IF aVal.t = "number" /\ bVal.t = "number" THEN aVal.num - bVal.num
    ELSE IF aVal.t = "boolean" /\ bVal.t = "boolean"
         THEN IF aVal.bool = bVal.bool THEN 0 ELSE IF aVal.bool THEN 1 ELSE -1
    ELSE LocaleCompare(LowerString(aVal), LowerString(bVal))

\* the comparator handed to sort: (a, b) => direction === "asc" ? c : -c
CompareRows(a, b, column, direction) ==
    LET comparison == Comparison(GetRawValue(a, column), GetRawValue(b, column))
    IN  IF direction = "asc" THEN comparison ELSE 0 - comparison

Sign(n) == IF n < 0 THEN -1 ELSE IF n > 0 THEN 1 ELSE 0

\* the sign of the comparator's result for every two rows of an array, by index
CompareMatrix(array, column, direction) ==
    [i \in 1..Len(array) |-> [j \in 1..Len(array) |->
        Sign(CompareRows(array[i], array[j], column, direction))]]

\* Array.prototype.sort is stable: a row goes behind the rows that do not
\* compare greater than it (rows are named by their index in the array)
RECURSIVE InsertSorted(_, _, _)
InsertSorted(order, x, cmp) ==
    IF order = <<>> THEN <<x>>
    ELSE LET last == order[Len(order)] IN
         IF cmp[last][x] > 0
         THEN Append(InsertSorted(SubSeq(order, 1, Len(order) - 1), x, cmp), last)
         ELSE Append(order, x)

\* the sorted order of the first n rows under a consistent comparator
RECURSIVE StableOrder(_, _)
StableOrder(cmp, n) ==
    IF n = 0 THEN <<>>
    ELSE LET rest == StableOrder(cmp, n - 1) IN InsertSorted(rest, n, cmp)

\* the comparator is a consistent comparator for the rows of the array
\* (ECMAScript, Array.prototype.sort): it orders them in classes of equals
ConsistentComparator(cmp) ==
    LET idx == DOMAIN cmp
    IN  /\ \A i, j \in idx : cmp[i][j] = 0 - cmp[j][i]
        /\ \A i, j, k \in idx :
                /\ cmp[i][j] = 0 /\ cmp[j][k] = 0 => cmp[i][k] = 0
                /\ cmp[i][j] < 0 /\ cmp[j][k] < 0 => cmp[i][k] < 0

\* the orders of the indices of an array
IndexOrders(n) ==
    {p \in [1..n -> 1..n] : \A i, j \in 1..n : i # j => p[i] # p[j]}

\* array.sort(comparator): the arrays it can leave. With a comparator that is
\* not consistent the order is implementation-defined.
ArraySort(array, column, direction) ==
    LET cmp == CompareMatrix(array, column, direction)
        orders == IF ConsistentComparator(cmp)
                  THEN {StableOrder(cmp, Len(array))}
                  ELSE IndexOrders(Len(array))
    IN  {[i \in 1..Len(array) |-> array[p[i]]] : p \in orders}

\* sortData sorting the array it is given in place
SortData_InPlace(data, state) ==
    IF state.column \in {Null, ""} \/ state.direction = Null
    THEN {[input |-> data, result |-> data]}
    ELSE {[input |-> sorted, result |-> sorted] :
            sorted \in ArraySort(data, state.column, state.direction)}

\* sortData(data): what it can return, and the array it was given after the call
SortData(data, state) ==
    IF state.column \in {Null, ""} \/ state.direction = Null
    THEN {[input |-> data, result |-> data]}
    ELSE {[input |-> data, result |-> sorted] :
            sorted \in ArraySort(data, state.column, state.direction)}

\* ------------------------------------------------------------------ resizing

\* a CSS width: `${n}px`, or `${n}%`
Px(n) == [unit |-> "px", n |-> n]
Percent(n) == [unit |-> "%", n |-> n]

\* resizeData = null
NoResize == [leftColumn |-> Null]

\* const minWidth = 50
MinWidth == 50

\* the new widths with only the width that fell below the minimum changed
ResizeWidths_ClampOne(leftStartWidth, rightStartWidth, diff, minWidth) ==
    LET newLeftWidth == leftStartWidth + diff
        newRightWidth == rightStartWidth - diff
    IN  <<IF newLeftWidth < minWidth THEN minWidth ELSE newLeftWidth,
          IF newRightWidth < minWidth THEN minWidth ELSE newRightWidth>>

\* handleResizeMove: the new widths of the left and the right column
ResizeWidths(leftStartWidth, rightStartWidth, diff, minWidth) ==
    LET totalWidth == leftStartWidth + rightStartWidth
        newLeftWidth == leftStartWidth + diff
        newRightWidth == rightStartWidth - diff
        \* if (newLeftWidth < minWidth) { ... }
        left1 == IF newLeftWidth < minWidth THEN minWidth ELSE newLeftWidth
        right1 == IF newLeftWidth < minWidth THEN totalWidth - minWidth
                  ELSE newRightWidth
        \* if (newRightWidth < minWidth) { ... }
        left2 == IF right1 < minWidth THEN totalWidth - minWidth ELSE left1
        right2 == IF right1 < minWidth THEN minWidth ELSE right1
    IN  <<left2, right2>>

\* handleColumnResize that sets a map of the one entry
HandleColumnResize_Replace(widths, columnKey, width) ==
    [k \in {columnKey} |-> width]

\* handleColumnResize(columnKey, width): {...prev, [columnKey]: width}
HandleColumnResize(widths, columnKey, width) ==
    [k \in (DOMAIN widths) \cup {columnKey} |->
        IF k = columnKey THEN width ELSE widths[k]]

\* the width map after a list of onColumnResize calls, in order
RECURSIVE ApplyResizes(_, _, _)
ApplyResizes(widths, resizes, i) ==
    IF i > Len(resizes) THEN widths
    ELSE ApplyResizes(HandleColumnResize(widths, resizes[i].key, resizes[i].width),
                      resizes, i + 1)

\* getInitialWidths: col.width, or an even share of 100%
GetInitialWidths(tableColumns) ==
    [k \in {tableColumns[i].key : i \in 1..Len(tableColumns)} |->
        Percent(100 \div Len(tableColumns))]

\* a visibleColumns memo that maps the visible keys to their columns
VisibleCols_InsertionOrder(tableColumns, visible) ==
    [i \in 1..Len(visible) |->
        tableColumns[CHOOSE k \in 1..Len(tableColumns) :
                        tableColumns[k].key = visible[i]]]

\* the visibleColumns memo of DataTable: props.columns.filter(visible)
VisibleCols(tableColumns, visible) ==
    SelectSeq(tableColumns,
              LAMBDA col : \E i \in 1..Len(visible) : visible[i] = col.key)

\* allColumnKeys(): the keys of props.columns, in their order
AllColumnKeys(tableColumns) == [i \in 1..Len(tableColumns) |-> tableColumns[i].key]

\* current.includes(columnKey)
Includes(current, columnKey) == \E i \in 1..Len(current) : current[i] = columnKey

\* toggleColumn that hides the last visible column too
ToggleColumn_HidesLast(current, columnKey) ==
    IF Includes(current, columnKey)
    THEN SelectSeq(current, LAMBDA k : k # columnKey)
    ELSE Append(current, columnKey)

\* the visible keys toggleColumn(columnKey) sets: a visible key is filtered out
\* unless it is the only one, a hidden key is appended
ToggleColumn(current, columnKey) ==
    IF Includes(current, columnKey)
    THEN IF Len(current) > 1
         THEN SelectSeq(current, LAMBDA k : k # columnKey)
         ELSE current
    ELSE Append(current, columnKey)

\* the visible keys selectNoColumns sets: the first key, if there is one
SelectNoColumnsKeys(tableColumns) ==
    IF Len(tableColumns) > 0 THEN <<tableColumns[1].key>> ELSE <<>>

\* columnsToExport of handleExport: props.columns.filter(visible)
ColumnsToExport(tableColumns, visible) ==
    SelectSeq(tableColumns, LAMBDA col : Includes(visible, col.key))

\* ------------------------------------------------------------------ CSV export

Comma == ","
DoubleQuote == "\""
LineFeed == "\n"

\* the code unit U+FEFF the file starts with
ByteOrderMark == "BOM"

\* no file was handed to the browser
NoDownload == [type |-> Null]

\* str.includes(c)
StrIncludes(str, c) == \E i \in 1..Len(str) : str[i] = c

\* str.replace(/"/g, '""')
RECURSIVE ReplaceQuotes(_)
ReplaceQuotes(str) ==
    IF str = <<>> THEN <<>>
    ELSE (IF Head(str) = DoubleQuote THEN <<DoubleQuote, DoubleQuote>>
          ELSE <<Head(str)>>) \o ReplaceQuotes(Tail(str))

\* a cell of the export that wraps in quotes without doubling the quotes inside
CsvCell_NoDoubling(value) ==
    IF value.t \in {"null", "undefined"} THEN EmptyText
    ELSE IF value.t = "boolean"
         THEN IF value.bool THEN <<"Y", "e", "s">> ELSE <<"N", "o">>
    ELSE LET str == StrValue(value) IN
         IF \/ StrIncludes(str, Comma)
            \/ StrIncludes(str, DoubleQuote)
            \/ StrIncludes(str, LineFeed)
         THEN <<DoubleQuote>> \o str \o <<DoubleQuote>>
         ELSE str

\* a cell of the export: the text handleExport makes of row[col.key]
CsvCell(value) ==
    IF value.t \in {"null", "undefined"} THEN EmptyText
    ELSE IF value.t = "boolean"
         THEN IF value.bool THEN <<"Y", "e", "s">> ELSE <<"N", "o">>
    ELSE LET str == StrValue(value) IN
         IF \/ StrIncludes(str, Comma)
            \/ StrIncludes(str, DoubleQuote)
            \/ StrIncludes(str, LineFeed)
         THEN <<DoubleQuote>> \o ReplaceQuotes(str) \o <<DoubleQuote>>
         ELSE str

\* texts.join(separator)
RECURSIVE Join(_, _)
Join(texts, separator) ==
    IF texts = <<>> THEN <<>>
    ELSE IF Len(texts) = 1 THEN texts[1]
    ELSE texts[1] \o <<separator>> \o Join(Tail(texts), separator)

\* headers and rows of handleExport: the labels of the columns, and the cells
\* of every row of the data for these columns
CsvFields(data, cols) ==
    << [j \in 1..Len(cols) |-> cols[j].label] >> \o
    [i \in 1..Len(data) |->
        [j \in 1..Len(cols) |-> CsvCell(RowGet(data[i], cols[j].key))]]

\* csvContent: the fields of a line joined by commas, the lines by line feeds
CsvContent(fields) ==
    Join([i \in 1..Len(fields) |-> Join(fields[i], Comma)], LineFeed)

\* a dataToExport that is props.data in both modes
DataToExport_AlwaysAll(type, processedRows, data) == data

\* dataToExport: processedData() in visible mode, props.data in all mode
DataToExport(type, processedRows, data) ==
    IF type = "visible" THEN processedRows ELSE data

\* canShowResizer(colIndex), with indices from 1
CanShowResizer(cols, colIndex, allow) ==
    /\ allow
    /\ colIndex + 1 <= Len(cols)
    /\ cols[colIndex].resizable
    /\ cols[colIndex + 1].resizable

\* handleResizeStart returns at once on a table whose resizing is off, on a
\* column without a right neighbour, or without the column itself
ResizeStartReturns_IgnoresNeighbour(cols, colIndex, allow) ==
    \/ ~allow
    \/ colIndex > Len(cols)
    \/ colIndex + 1 > Len(cols)
    \/ ~cols[colIndex].resizable

\* the early returns of handleResizeStart(colIndex, e), with indices from 1
ResizeStartReturns(cols, colIndex, allow) ==
    \/ ~allow
    \/ colIndex > Len(cols)
    \/ colIndex + 1 > Len(cols)
    \/ ~cols[colIndex].resizable
    \/ ~cols[colIndex + 1].resizable

\* th.offsetWidth of a column: the width of the map if it is in pixels, the
\* width the browser lays the cell out at otherwise
OffsetWidth(widths, laidOut, key) ==
    IF key \in DOMAIN widths /\ widths[key].unit = "px"
    THEN widths[key].n
    ELSE laidOut[key]

\* the onColumnResize calls that lock only the two columns of the drag
LockWidths_PairOnly(cols, colIndex, widths, laidOut) ==
    [i \in 1..2 |->
        [key |-> cols[colIndex + i - 1].key,
         width |-> Px(OffsetWidth(widths, laidOut, cols[colIndex + i - 1].key))]]

\* the onColumnResize calls of handleResizeStart: every header cell's column
\* gets its offsetWidth
LockWidths(cols, colIndex, widths, laidOut) ==
    [i \in 1..Len(cols) |->
        [key |-> cols[i].key,
         width |-> Px(OffsetWidth(widths, laidOut, cols[i].key))]]

\* ------------------------------------------------------------------ inputs

Text_A     == <<"^", "A">>
Text_Open  == <<"(">>
Text_alice == <<"a", "l", "i", "c", "e">>
Text_Alice == <<"A", "l", "i", "c", "e">>
Text_bob   == <<"b", "o", "b">>

\* the strings generateId returns in the runs that do not take them to be
\* new: Math.random().toString(36).substring(2, 11) may return a string twice
GeneratedIds == {1, 2}

\* the strings generateId returns for the conditions added to a filter whose
\* first condition has the id 2: that id again, or another one
AddIds == {2, 9}

\* the columns prop in those runs: two columns, or none
IdsColumnChoices == {<<"name", "n">>, <<>>}

\* the texts typed into a condition's pattern input
RegexInputs == {EmptyText, Text_A}

\* the columns prop of the filter: the keys offered by a condition's select
ColumnChoices == {<<"name", "n">>}

\* the rows the published predicates are applied to
DataRows ==
    { [name |-> StrVal(Text_alice), n |-> NumVal(10)],
      [name |-> StrVal(Text_Alice), n |-> BoolVal(TRUE)],
      [name |-> StrVal(Text_bob),   n |-> NullVal],
      [name |-> StrVal(Text_Alice)] }

\* the conditions of the trees handed to the evaluator: empty and unknown
\* columns, empty, valid and invalid patterns, both case modes
EvalConditions ==
    { Condition(0, "",     EmptyText, FALSE),
      Condition(0, "zz",   EmptyText, TRUE),
      Condition(0, "name", EmptyText, FALSE),
      Condition(0, "name", Text_A,    FALSE),
      Condition(0, "name", Text_A,    TRUE),
      Condition(0, "n",    <<"1">>,   FALSE),
      Condition(0, "name", Text_Open, FALSE) }

\* the column definitions of the table: key, sortable, resizable and label
\* (none gives a width); the first label holds a comma
TableColumns ==
    << [key |-> "name", sortable |-> TRUE,  resizable |-> TRUE,
        label |-> <<"N", "a", "m", "e", Comma, " ", "f", "u", "l", "l">>],
       [key |-> "n",    sortable |-> TRUE,  resizable |-> TRUE,
        label |-> <<"N">>],
       [key |-> "ok",   sortable |-> TRUE,  resizable |-> TRUE,
        label |-> <<"O", "K">>],
       [key |-> "tag",  sortable |-> FALSE, resizable |-> FALSE,
        label |-> <<"T", "a", "g">>] >>

ColumnKeys == {TableColumns[k].key : k \in 1..Len(TableColumns)}

\* the visible-column keys the table starts with (defaultVisibleColumns)
VisibleChoices ==
    { <<"name", "n", "ok", "tag">>, <<"name", "ok", "tag">> }

\* the widths the browser lays the header cells out at while their width is
\* not given in pixels: pairs of 200 (the 100/100 example), of less than twice
\* the minimum width, and of more
LayoutChoices ==
    { [name |-> 100, n |-> 100, ok |-> 100, tag |-> 100],
      [name |-> 40,  n |-> 40,  ok |-> 40,  tag |-> 280],
      [name |-> 60,  n |-> 30,  ok |-> 210, tag |-> 100] }

\* clientX of the mousedown on a resizer, and of the pointer events after it
StartXs == {200, 300}
PointerXs == {130, 190, 200, 230, 270}

\* the header cells, mousedown positions and pointer positions of the runs
\* that also show and hide columns
ViewStartIndices == {1, 2}
ViewStartXs == {200}
ViewPointerXs == {130, 230}

\* the defaultSort prop: absent, or a column (any string) and a direction
DefaultSorts ==
    {NoDefaultSort} \cup
    {SortState(c, d) : c \in {"", "name", "n"}, d \in {"asc", "desc"}}

\* the rows of the raw collections that are sorted: names that differ in case
\* only, numbers, a numeric key held as text, booleans, a null and a missing key
SortRows ==
    { [name |-> StrVal(Text_alice), n |-> NumVal(10),       ok |-> BoolVal(TRUE)],
      [name |-> StrVal(Text_Alice), n |-> NumVal(9),        ok |-> BoolVal(FALSE)],
      [name |-> StrVal(Text_bob),   n |-> StrVal(<<"1", "a">>), ok |-> BoolVal(TRUE)],
      [name |-> StrVal(Text_bob),   n |-> NumVal(10),       ok |-> BoolVal(FALSE)],
      [n |-> NullVal,               ok |-> BoolVal(TRUE)] }

\* the rows of the raw collections that are exported: texts with a comma, a
\* double quote and a line feed, plain and empty texts, numbers, booleans, a
\* null and missing keys
ExportRows ==
    [x |-> [name |-> StrVal(<<"x", Comma, "y">>), n |-> NullVal,
            ok |-> BoolVal(TRUE)],
     q |-> [name |-> StrVal(<<"a", DoubleQuote, "b">>), n |-> NumVal(10),
            ok |-> BoolVal(FALSE), tag |-> StrVal(<<"a", "b">>)],
     l |-> [name |-> StrVal(<<"a", LineFeed, "b">>), n |-> NumVal(9),
            ok |-> BoolVal(TRUE), tag |-> StrVal(EmptyText)]]

\* the raw collections of the runs that export
ExportData ==
    { <<ExportRows.x, ExportRows.q>>,
      <<ExportRows.l, ExportRows.x, ExportRows.q>> }

\* the raw collections: the arrays of at most n such rows
RECURSIVE RowArrays(_)
RowArrays(n) ==
    IF n = 0 THEN {<<>>}
    ELSE RowArrays(n - 1) \cup
         {Append(a, r) : a \in {b \in RowArrays(n - 1) : Len(b) = n - 1},
                         r \in SortRows}

\* the nodes of at most n nodes, and the child lists of at most n nodes in all
RECURSIVE EvalNodes(_)
RECURSIVE EvalForests(_)
EvalNodes(n) ==
    IF n = 0 THEN {}
    ELSE EvalConditions \cup
         {Group(0, op, f) : op \in {"AND", "OR"}, f \in EvalForests(n - 1)}
EvalForests(n) ==
    {<<>>} \cup
    UNION {{<<t>> \o f : t \in EvalNodes(k), f \in EvalForests(n - k)} : k \in 1..n}

\* the trees handed to the evaluator: a root group over such a child list
EvalTrees ==
    {Group(0, op, f) : op \in {"AND", "OR"}, f \in EvalForests(EvalMaxNodes)}

\* ------------------------------------------------------------------ state

VARIABLES
    columns,            \* props.columns of AdvancedFilter (option values)
    filterRoot,         \* the filterRoot signal
    store,              \* filterValuesStore
    isAutoApply,        \* the isAutoApply signal
    debouncedTimerRef,  \* debouncedTimerRef: a timer handle, 0 for null
    timers,             \* the host's armed timers (handles whose callback is pending)
    nextId,             \* the next fresh id of generateId
    published,          \* the evaluator last passed to props.onFilterChange
    shown,              \* the rows the consumer let through when it was published
    disposed,           \* the component was torn down (onCleanup ran)
    editCount,          \* edits made so far
    lastEvent,          \* the handler that ran last
    calls,              \* the props callbacks that handler called, in order
    cancelled,          \* that handler cleared a timer that was armed
    covered,            \* the edits the armed timer stands for (each made while
                        \* the timer of the one before was armed), or that the
                        \* timer that just fired stood for; 0 otherwise
    evalTree,           \* a tree handed to createEvaluator
    evalResult,         \* the outcome of its evaluator on every row, once it ran
    constructed,        \* the RegExp objects each of these calls constructed
    rawRows,            \* props.data of FilterableTable
    sortState,          \* the sortState signal
    sortInput,          \* the array last handed to sortData, as it is after the call
    processed,          \* the processedData memo
    clicked,            \* the column of the header clicked last
    observed,           \* the row lists props.onFilteredDataChange was called
                        \* with in the step that last ran the processedData memo
    allowResize,        \* props.allowResize !== false
    visibleColumns,     \* the visibleColumns signal (column keys)
    columnWidths,       \* the columnWidths signal (the width map)
    layout,             \* the width the browser gives each header cell while
                        \* the map does not give it in pixels
    resizeData,         \* resizeData of DataTable
    resizingColumn,     \* the resizingColumn signal
    listeners,          \* the listeners DataTable has registered on document
    unmounted,          \* DataTable was torn down (its onCleanup ran)
    dragCount,          \* drags started so far
    resizeEvent,        \* the pointer event or handler of the table or of the
                        \* column selector that ran last
    resizeCalls,        \* the onColumnResize calls it made, in order
    startIndex,         \* the header index handleResizeStart was last called
                        \* with (from 1), 0 after any other event
    pointerX,           \* clientX of the pointer event handled last
    toggleCount,        \* toggleColumn calls so far
    viewKey,            \* the column key toggleColumn was last called with
    exportType,         \* the exportType signal
    showExportModal,    \* the showExportModal signal
    exported            \* the file the step handed to the browser, if the step
                        \* is an export

filterVars == <<columns, filterRoot, store, isAutoApply, debouncedTimerRef, timers,
                nextId, published, shown, disposed, editCount, lastEvent, calls,
                cancelled, covered>>

evalVars == <<evalTree, evalResult, constructed>>

sortVars == <<rawRows, sortState, sortInput, processed, clicked, observed>>

resizeVars == <<allowResize, visibleColumns, columnWidths, layout, resizeData,
                resizingColumn, listeners, unmounted, dragCount, resizeEvent,
                resizeCalls, startIndex, pointerX>>

viewVars == <<toggleCount, viewKey, exportType, showExportModal>>

vars == <<filterVars, evalVars, sortVars, resizeVars, viewVars, exported>>

\* () => true
ConstTrue == [kind |-> "true", root |-> Group(0, "AND", <<>>)]

\* createEvaluator(root): the closure (row) => evaluateNode(root, row)
CreateEvaluator(root) == [kind |-> "evaluateNode", root |-> root]

\* an evaluator that reads the tree and the store when it is called, instead
\* of the snapshot createEvaluator was given
CallEvaluator_Live(evaluator, row) ==
    IF evaluator.kind = "true" THEN Returned(TRUE)
    ELSE EvaluateNode(BuildFilterWithValues(filterRoot, store), row)

\* calling a published evaluator on a row
CallEvaluator(evaluator, row) ==
    IF evaluator.kind = "true" THEN Returned(TRUE)
    ELSE EvaluateNode(evaluator.root, row)

\* the consumer's use of an evaluator: data.filter(evaluator)
FilterRows(evaluator) == {row \in DataRows : CallEvaluator(evaluator, row).value}

NotRun == <<>>

\* the evaluator harness before it is used
EvalIdle ==
    /\ evalTree = Group(0, "AND", <<>>)
    /\ evalResult = NotRun
    /\ constructed = NotRun

FilterInit ==
    /\ columns \in ColumnChoices
    /\ filterRoot = CreateDefaultFilter(1, 2)
    /\ nextId = 3
    /\ store = RenderStore(CreateDefaultFilter(1, 2), <<>>, columns)
    /\ isAutoApply \in BOOLEAN
    /\ debouncedTimerRef = 0
    /\ timers = {}
    /\ published = ConstTrue
    /\ shown = FilterRows(ConstTrue)
    /\ disposed = FALSE
    /\ editCount = 0
    /\ lastEvent = "init"
    /\ calls = <<>>
    /\ cancelled = FALSE
    /\ covered = 0

\* props.data.filter(evaluator)
Filtered(data, evaluator) ==
    SelectSeq(data, LAMBDA row : CallEvaluator(evaluator, row).value)

\* a processedData memo that sorts the rows without filtering them
SetProcessed_SkipsFilter(data, evaluator, state) ==
    \E outcome \in SortData(data, state) :
        /\ sortInput' = outcome.input
        /\ processed' = outcome.result
        /\ observed' = {outcome.result}

\* the processedData memo runs: sortData(props.data.filter(filterEvaluator())),
\* and props.onFilteredDataChange is called with the result
SetProcessed(data, evaluator, state) ==
    \E outcome \in SortData(Filtered(data, evaluator), state) :
        /\ sortInput' = outcome.input
        /\ processed' = outcome.result
        /\ observed' = {outcome.result}

\* a table without rows and without a defaultSort
SortIdle ==
    /\ rawRows = <<>>
    /\ sortState = InitialSortState(NoDefaultSort)
    /\ sortInput = <<>>
    /\ processed = <<>>
    /\ clicked = Null
    /\ observed = { <<>> }

\* a table whose columns are all visible, before any pointer event
ResizeIdle ==
    /\ allowResize = TRUE
    /\ visibleColumns = [i \in 1..Len(TableColumns) |-> TableColumns[i].key]
    /\ columnWidths = GetInitialWidths(TableColumns)
    /\ layout = [k \in ColumnKeys |-> 100]
    /\ resizeData = NoResize
    /\ resizingColumn = Null
    /\ listeners = {}
    /\ unmounted = FALSE
    /\ dragCount = 0
    /\ resizeEvent = "init"
    /\ resizeCalls = <<>>
    /\ startIndex = 0
    /\ pointerX = 0

\* before any use of the column selector and of the export dialog
ViewIdle ==
    /\ toggleCount = 0
    /\ viewKey = Null
    /\ exportType = "visible"
    /\ showExportModal = FALSE
    /\ exported = NoDownload

Init == FilterInit /\ EvalIdle /\ SortIdle /\ ResizeIdle /\ ViewIdle

\* ------------------------------------------------------------------ handlers

\* props.onFilterChange(evaluator), as FilterableTable handles it
OnFilterChange(evaluator) ==
    /\ published' = evaluator
    /\ shown' = FilterRows(evaluator)

\* applyFilter; FilterableTable sets the evaluator it is handed
\* (handleFilterChange), and the processedData memo runs
ApplyFilter ==
    /\ OnFilterChange(CreateEvaluator(BuildFilterWithValues(filterRoot, store)))
    /\ store' = BuildStore(filterRoot, store)
    /\ SetProcessed(rawRows,
                    CreateEvaluator(BuildFilterWithValues(filterRoot, store)),
                    sortState)
    /\ UNCHANGED <<rawRows, sortState, clicked>>

\* clearTimeout(handle) on the host's timers
ClearTimeout(armed, handle) == armed \ {handle}

\* the handle setTimeout returns: a fresh one, numbered by the edit that arms it
SetTimeoutHandle == editCount + 1

\* triggerDebouncedApply without the clearTimeout of the timer armed before
TriggerDebouncedApply_NoClear ==
    IF isAutoApply
    THEN /\ timers' = timers \cup {SetTimeoutHandle}
         /\ debouncedTimerRef' = SetTimeoutHandle
    ELSE /\ timers' = timers
         /\ debouncedTimerRef' = 0

\* triggerDebouncedApply
TriggerDebouncedApply ==
    LET cleared == IF debouncedTimerRef # 0
                   THEN ClearTimeout(timers, debouncedTimerRef) ELSE timers
    IN  IF isAutoApply
        THEN /\ timers' = cleared \cup {SetTimeoutHandle}
             /\ debouncedTimerRef' = SetTimeoutHandle
        ELSE /\ timers' = cleared
             /\ debouncedTimerRef' = 0

\* what every handler records
Record(event, called, didCancel, stoodFor) ==
    /\ exported' = NoDownload
    /\ lastEvent' = event
    /\ calls' = called
    /\ cancelled' = didCancel
    /\ covered' = stoodFor

\* the edits the armed timer stands for, if one is armed
StillCovered == IF timers # {} THEN covered ELSE 0

\* handleStructureChange(updated), then the re-creation of the condition editors
HandleStructureChange(updated, st) ==
    /\ editCount < MaxEdits
    /\ editCount' = editCount + 1
    /\ filterRoot' = updated
    /\ store' = RenderStore(updated, st, columns)
    /\ TriggerDebouncedApply
    /\ Record("edit", <<>>, debouncedTimerRef \in timers,
              IF ~isAutoApply THEN 0
              ELSE IF debouncedTimerRef \in timers THEN covered + 1 ELSE 1)
    /\ UNCHANGED <<evalVars, sortVars, resizeVars, viewVars, columns, isAutoApply, published, shown, disposed>>

\* click on a group's operator button
ToggleOperator(path) ==
    /\ ~disposed
    /\ NodeAt(filterRoot, path).type = "group"
    /\ HandleStructureChange(
            OnStructureChange(filterRoot, path,
                              HandleToggleOperator(NodeAt(filterRoot, path))),
            store)
    /\ UNCHANGED nextId

\* click on a group's "Condition" button, when generateId returns newId
AddConditionWith(path, newId) ==
    /\ ~disposed
    /\ NodeAt(filterRoot, path).type = "group"
    /\ HandleStructureChange(
            OnStructureChange(filterRoot, path,
                HandleAddCondition(NodeAt(filterRoot, path), newId,
                                   DefaultColumn(columns))),
            SetFilterValue(store, newId, DefaultColumn(columns), EmptyText, FALSE))

\* click on a group's "Condition" button, when generateId returns an id it
\* has not returned before
AddCondition(path) ==
    /\ nextId' = nextId + 1
    /\ AddConditionWith(path, nextId)

\* click on a group's "Group" button, when generateId returns newConditionId
\* and then newGroupId
AddGroupWith(path, newConditionId, newGroupId) ==
    /\ ~disposed
    /\ NodeAt(filterRoot, path).type = "group"
    /\ HandleStructureChange(
            OnStructureChange(filterRoot, path,
                HandleAddGroup(NodeAt(filterRoot, path), newConditionId,
                               newGroupId, DefaultColumn(columns))),
            SetFilterValue(store, newConditionId, DefaultColumn(columns),
                           EmptyText, FALSE))

\* click on a group's "Group" button, when generateId returns two ids it has
\* not returned before
AddGroup(path) ==
    /\ nextId' = nextId + 2
    /\ AddGroupWith(path, nextId, nextId + 1)

\* click on the remove button of a child (a condition, or a nested group)
RemoveChild(path) ==
    /\ ~disposed
    /\ path # <<>>
    /\ LET group == NodeAt(filterRoot, Front(path)) IN
       HandleStructureChange(
            OnStructureChange(filterRoot, Front(path),
                              HandleRemoveChild(group, Last(path))),
            RemoveFromStore(group.children[Last(path)], store))
    /\ UNCHANGED nextId

\* handleValueChange
HandleValueChange(st) ==
    /\ editCount < MaxEdits
    /\ editCount' = editCount + 1
    /\ store' = st
    /\ TriggerDebouncedApply
    /\ Record("edit", <<>>, debouncedTimerRef \in timers,
              IF ~isAutoApply THEN 0
              ELSE IF debouncedTimerRef \in timers THEN covered + 1 ELSE 1)
    /\ UNCHANGED <<evalVars, sortVars, resizeVars, viewVars, columns, filterRoot, nextId, isAutoApply, published, shown,
                   disposed>>

\* the local signals of a condition's editor: set from getFilterValue when the
\* editor is created and written to the store with every change, so they are
\* the store's entry for the condition
LocalValues(condition) == store[condition.id]

\* handleColumnChange: the select changes to another option
ColumnChange(path, value) ==
    /\ ~disposed
    /\ NodeAt(filterRoot, path).type = "condition"
    /\ \E k \in 1..Len(columns) : columns[k] = value
    /\ LET c == NodeAt(filterRoot, path) IN
       /\ value # LocalValues(c).column
       /\ HandleValueChange(SetFilterValue(store, c.id, value,
                LocalValues(c).regex, LocalValues(c).caseSensitive))

\* handleRegexInput: the text of the pattern input changes
RegexInput(path, value) ==
    /\ ~disposed
    /\ NodeAt(filterRoot, path).type = "condition"
    /\ LET c == NodeAt(filterRoot, path) IN
       /\ value # LocalValues(c).regex
       /\ HandleValueChange(SetFilterValue(store, c.id, LocalValues(c).column,
                value, LocalValues(c).caseSensitive))

\* handleCaseSensitiveChange: the checkbox flips
CaseSensitiveChange(path) ==
    /\ ~disposed
    /\ NodeAt(filterRoot, path).type = "condition"
    /\ LET c == NodeAt(filterRoot, path) IN
       HandleValueChange(SetFilterValue(store, c.id, LocalValues(c).column,
            LocalValues(c).regex, ~LocalValues(c).caseSensitive))

\* handleEnterKey without the isAutoApply test: Enter applies in both modes
EnterKey_Always ==
    /\ ~disposed
    /\ ConditionPaths(filterRoot) # {}
    /\ timers' = IF debouncedTimerRef # 0
                 THEN ClearTimeout(timers, debouncedTimerRef) ELSE timers
    /\ debouncedTimerRef' = 0
    /\ ApplyFilter
    /\ Record("enter", <<"onFilterChange">>, debouncedTimerRef \in timers, 0)
    /\ UNCHANGED <<evalVars, resizeVars, viewVars, columns, filterRoot, isAutoApply, nextId, disposed,
                   editCount>>

\* handleEnterKey: Enter in the pattern input of some condition
EnterKey ==
    /\ ~disposed
    /\ ConditionPaths(filterRoot) # {}
    /\ IF ~isAutoApply
       THEN /\ timers' = IF debouncedTimerRef # 0
                         THEN ClearTimeout(timers, debouncedTimerRef) ELSE timers
            /\ debouncedTimerRef' = 0
            /\ ApplyFilter
            /\ Record("enter", <<"onFilterChange">>, debouncedTimerRef \in timers, 0)
       ELSE /\ UNCHANGED <<timers, debouncedTimerRef, store, published, shown,
                           sortVars>>
            /\ Record("enter", <<>>, FALSE, StillCovered)
    /\ UNCHANGED <<evalVars, resizeVars, viewVars, columns, filterRoot, isAutoApply, nextId, disposed,
                   editCount>>

\* props.onFilterChange(() => true) and then props.onReset as FilterableTable
\* handles them with a handleReset that leaves the sort state
HandleReset_KeepsSort ==
    /\ sortState' = sortState
    /\ \E outcome \in SortData(Filtered(rawRows, ConstTrue), sortState) :
            /\ sortInput' = outcome.input
            /\ processed' = outcome.result
            /\ observed' = {outcome.result}
    /\ UNCHANGED <<rawRows, clicked>>

\* handles them (handleFilterChange, handleReset): the processedData memo runs
\* for the new evaluator, the sort state goes back to unsorted, and the memo
\* runs again
HandleReset ==
    /\ sortState' = SortState(Null, Null)
    /\ \E first \in SortData(Filtered(rawRows, ConstTrue), sortState) :
       \E second \in SortData(Filtered(rawRows, ConstTrue), SortState(Null, Null)) :
            /\ sortInput' = second.input
            /\ processed' = second.result
            /\ observed' = {first.result, second.result}
    /\ UNCHANGED <<rawRows, clicked>>

\* handleReset that also puts the default filter back
Reset_ClearsTree ==
    /\ ~disposed
    /\ OnFilterChange(ConstTrue)
    /\ HandleReset
    /\ filterRoot' = CreateDefaultFilter(1, 2)
    /\ store' = RenderStore(CreateDefaultFilter(1, 2), <<>>, columns)
    /\ Record("reset", <<"onFilterChange", "onReset">>, FALSE, StillCovered)
    /\ UNCHANGED <<evalVars, resizeVars, viewVars, columns, isAutoApply, debouncedTimerRef,
                   timers, nextId, disposed, editCount>>

\* handleReset: click on Reset
Reset ==
    /\ ~disposed
    /\ OnFilterChange(ConstTrue)
    /\ HandleReset
    /\ Record("reset", <<"onFilterChange", "onReset">>, FALSE, StillCovered)
    /\ UNCHANGED <<evalVars, resizeVars, viewVars, columns, filterRoot, store, isAutoApply, debouncedTimerRef,
                   timers, nextId, disposed, editCount>>

\* the auto-apply checkbox: setIsAutoApply(checked)
SetIsAutoApply ==
    /\ ~disposed
    /\ isAutoApply' = ~isAutoApply
    /\ Record("autoApply", <<>>, FALSE, StillCovered)
    /\ UNCHANGED <<evalVars, sortVars, resizeVars, viewVars, columns, filterRoot, store, debouncedTimerRef, timers,
                   nextId, published, shown, disposed, editCount>>

\* the host runs the callback of an armed timer: () => applyFilter()
TimerFire(handle) ==
    /\ handle \in timers
    /\ timers' = timers \ {handle}
    /\ ApplyFilter
    /\ Record("timer", <<"onFilterChange">>, FALSE, covered)
    /\ UNCHANGED <<evalVars, resizeVars, viewVars, columns, filterRoot, isAutoApply, debouncedTimerRef,
                   nextId, disposed, editCount>>

\* onCleanup without the clearTimeout
Cleanup_NoClear ==
    /\ ~disposed
    /\ disposed' = TRUE
    /\ Record("cleanup", <<>>, FALSE, StillCovered)
    /\ UNCHANGED <<evalVars, sortVars, resizeVars, viewVars, columns, filterRoot, store, isAutoApply,
                   debouncedTimerRef, timers, nextId, published, shown, editCount>>

\* onCleanup: the component is disposed
Cleanup ==
    /\ ~disposed
    /\ disposed' = TRUE
    /\ timers' = IF debouncedTimerRef # 0
                 THEN ClearTimeout(timers, debouncedTimerRef) ELSE timers
    /\ Record("cleanup", <<>>, debouncedTimerRef \in timers, 0)
    /\ UNCHANGED <<evalVars, sortVars, resizeVars, viewVars, columns, filterRoot, store, isAutoApply, debouncedTimerRef,
                   nextId, published, shown, editCount>>

\* one edit of the tree or of a condition's values
Edit ==
    \/ \E path \in PathsOf(filterRoot) : ToggleOperator(path)
    \/ \E path \in PathsOf(filterRoot) : AddCondition(path)
    \/ \E path \in PathsOf(filterRoot) : AddGroup(path)
    \/ \E path \in PathsOf(filterRoot) : RemoveChild(path)
    \/ \E path \in PathsOf(filterRoot) : \E value \in {"name", "n"} :
            ColumnChange(path, value)
    \/ \E path \in PathsOf(filterRoot) : \E value \in RegexInputs :
            RegexInput(path, value)
    \/ \E path \in PathsOf(filterRoot) : CaseSensitiveChange(path)

Next ==
    \/ Edit
    \/ EnterKey
    \/ Reset
    \/ SetIsAutoApply
    \/ \E handle \in timers : TimerFire(handle)
    \/ Cleanup

Spec == Init /\ [][Next]_vars

\* ------------------------------------------------------------------ evaluator runs

\* createEvaluator(tree), and the evaluator called on every row
EvalRun ==
    /\ evalResult = NotRun
    /\ evalResult' = [row \in DataRows |->
                         CallEvaluator(CreateEvaluator(evalTree), row)]
    /\ constructed' = [row \in DataRows |->
                         RegExpConstructions(CreateEvaluator(evalTree).root, row)]
    /\ UNCHANGED <<filterVars, sortVars, resizeVars, viewVars, exported, evalTree>>

EvalInit ==
    /\ FilterInit
    /\ columns = <<"name", "n">>
    /\ isAutoApply = TRUE
    /\ evalTree \in EvalTrees
    /\ evalResult = NotRun
    /\ constructed = NotRun
    /\ SortIdle
    /\ ResizeIdle
    /\ ViewIdle

EvalNext == EvalRun

SpecEval == EvalInit /\ [][EvalNext]_vars

\* ------------------------------------------------------------------ id runs

\* a filter whose ids are whatever generateId returns: createDefaultFilter()
\* calls it twice; the filter applies on Enter
IdsInit ==
    /\ columns \in IdsColumnChoices
    /\ \E rootId \in GeneratedIds : \E conditionId \in GeneratedIds :
            /\ filterRoot = CreateDefaultFilter(rootId, conditionId)
            /\ store = RenderStore(CreateDefaultFilter(rootId, conditionId), <<>>,
                                   columns)
    /\ nextId = 3
    /\ isAutoApply = FALSE
    /\ debouncedTimerRef = 0
    /\ timers = {}
    /\ published = ConstTrue
    /\ shown = FilterRows(ConstTrue)
    /\ disposed = FALSE
    /\ editCount = 0
    /\ lastEvent = "init"
    /\ calls = <<>>
    /\ cancelled = FALSE
    /\ covered = 0
    /\ EvalIdle
    /\ SortIdle
    /\ ResizeIdle
    /\ ViewIdle

IdsNext ==
    \/ \E path \in PathsOf(filterRoot) : ToggleOperator(path)
    \/ \E path \in PathsOf(filterRoot) : \E newId \in GeneratedIds :
            AddConditionWith(path, newId) /\ UNCHANGED nextId
    \/ \E path \in PathsOf(filterRoot) :
       \E newConditionId \in GeneratedIds : \E newGroupId \in GeneratedIds :
            AddGroupWith(path, newConditionId, newGroupId) /\ UNCHANGED nextId
    \/ \E path \in PathsOf(filterRoot) : RemoveChild(path)

SpecIds == IdsInit /\ [][IdsNext]_vars

\* ------------------------------------------------------------------ sort runs

\* handleHeaderClick on the header of a column, outside its resizer:
\* props.onSortChange(col.key) unless the column is not sortable, and the
\* processedData memo runs with the new sort state
HeaderClick(col) ==
    /\ ~disposed
    /\ col.sortable
    /\ sortState' = HandleSortChange(sortState, col.key)
    /\ SetProcessed(rawRows, published, HandleSortChange(sortState, col.key))
    /\ clicked' = col.key
    /\ Record("sort", <<>>, FALSE, StillCovered)
    /\ UNCHANGED <<evalVars, resizeVars, viewVars, rawRows, columns, filterRoot, store, isAutoApply,
                   debouncedTimerRef, timers, nextId, published, shown, disposed,
                   editCount>>

\* a table over a raw collection, with or without a defaultSort
SortInit ==
    /\ FilterInit
    /\ columns = <<"name", "n">>
    /\ isAutoApply = TRUE
    /\ EvalIdle
    /\ ResizeIdle
    /\ ViewIdle
    /\ rawRows \in RowArrays(MaxRows)
    /\ \E defaultSort \in DefaultSorts :
            /\ sortState = InitialSortState(defaultSort)
            /\ \E outcome \in SortData(Filtered(rawRows, ConstTrue),
                                        InitialSortState(defaultSort)) :
                    /\ sortInput = outcome.input
                    /\ processed = outcome.result
                    /\ observed = {outcome.result}
    /\ clicked = Null

SortNext ==
    \/ \E k \in 1..Len(TableColumns) : HeaderClick(TableColumns[k])
    \/ Reset

SpecSort == SortInit /\ [][SortNext]_vars

\* ------------------------------------------------------------------ data runs

\* the parent hands the table a new props.data: a row more, or the first row
\* less; the processedData memo runs
DataChange(data) ==
    /\ ~disposed
    /\ data # rawRows
    /\ rawRows' = data
    /\ SetProcessed(data, published, sortState)
    /\ Record("data", <<>>, FALSE, StillCovered)
    /\ UNCHANGED <<evalVars, resizeVars, viewVars, sortState, clicked, columns,
                   filterRoot, store, isAutoApply, debouncedTimerRef, timers,
                   nextId, published, shown, disposed, editCount>>

\* the arrays props.data changes to
NextData(data) ==
    (IF data = <<>> THEN {} ELSE {Tail(data)})
        \cup (IF Len(data) < DataMaxRows
              THEN {Append(data, r) : r \in SortRows} ELSE {})

\* a table over one of the raw collections, without a defaultSort, whose
\* filter applies on Enter: as it is constructed, or after a pattern was typed
\* into the default condition (handleRegexInput, which arms no timer in this
\* mode)
TableInit(collections) ==
    /\ columns = <<"name", "n">>
    /\ filterRoot = CreateDefaultFilter(1, 2)
    /\ nextId = 3
    /\ \E typed \in RegexInputs :
            /\ store = SetFilterValue(RenderStore(filterRoot, <<>>, columns), 2,
                                      "name", typed, FALSE)
            /\ editCount = IF typed = EmptyText THEN 0 ELSE 1
            /\ lastEvent = IF typed = EmptyText THEN "init" ELSE "edit"
    /\ isAutoApply = FALSE
    /\ debouncedTimerRef = 0
    /\ timers = {}
    /\ published = ConstTrue
    /\ shown = FilterRows(ConstTrue)
    /\ disposed = FALSE
    /\ calls = <<>>
    /\ cancelled = FALSE
    /\ covered = 0
    /\ EvalIdle
    /\ ResizeIdle
    /\ ViewIdle
    /\ rawRows \in collections
    /\ sortState = InitialSortState(NoDefaultSort)
    /\ sortInput = rawRows
    /\ processed = rawRows
    /\ observed = {rawRows}
    /\ clicked = Null

DataInit == TableInit(RowArrays(DataMaxRows))

DataNext ==
    \/ \E data \in NextData(rawRows) : DataChange(data)
    \/ EnterKey
    \/ \E k \in 1..Len(TableColumns) : HeaderClick(TableColumns[k])
    \/ Reset

SpecData == DataInit /\ [][DataNext]_vars

\* ------------------------------------------------------------------ add runs

\* a filter with a typed pattern, or none, in its first condition: operators
\* are toggled, conditions and groups are added, with an id generateId has
\* returned before or with a new one, and Enter applies the filter
AddInit == TableInit(ExportData)

AddNext ==
    \/ \E path \in PathsOf(filterRoot) : ToggleOperator(path)
    \/ \E path \in PathsOf(filterRoot) : \E newId \in AddIds :
            AddConditionWith(path, newId) /\ UNCHANGED nextId
    \/ \E path \in PathsOf(filterRoot) : AddGroup(path)
    \/ EnterKey

SpecAdd == AddInit /\ [][AddNext]_vars

\* ------------------------------------------------------------------ shared store runs

\* filterValuesStore is one Map for every AdvancedFilter of the page: the
\* handleRemoveChild of another filter, for a condition that carries this id,
\* deletes the entry; this filter is not rendered again
SharedDelete(id) ==
    /\ ~disposed
    /\ id \in DOMAIN store
    /\ store' = DeleteFilterValue(store, id)
    /\ Record("shared", <<>>, FALSE, StillCovered)
    /\ UNCHANGED <<evalVars, sortVars, resizeVars, viewVars, columns, filterRoot,
                   nextId, isAutoApply, debouncedTimerRef, timers, published,
                   shown, disposed, editCount>>

SharedInit == TableInit(ExportData)

SharedNext ==
    \/ \E id \in DOMAIN store : SharedDelete(id)
    \/ AddCondition(<<>>)
    \/ EnterKey

SpecShared == SharedInit /\ [][SharedNext]_vars

\* ------------------------------------------------------------------ resize runs

\* what every pointer event and handler of the table and every operation of
\* the column selector records
ResizeRecord(event, index, resizes, clientX) ==
    /\ exported' = NoDownload
    /\ resizeEvent' = event
    /\ startIndex' = index
    /\ resizeCalls' = resizes
    /\ pointerX' = clientX

\* removeEventListener for both listeners
RemoveListeners(registered) == registered \ {"mousemove", "mouseup"}

\* handleResizeStart(colIndex, e), called for the header cell at colIndex with
\* a mousedown at clientX: it returns at once on its own conditions, whether
\* the resizer of that cell is rendered (canShowResizer) or not; else it locks
\* the widths and begins the drag
ResizeStart(colIndex, clientX) ==
    LET cols == VisibleCols(TableColumns, visibleColumns)
        locks == LockWidths(cols, colIndex, columnWidths, layout)
        locked == ApplyResizes(columnWidths, locks, 1)
    IN  /\ ~unmounted
        /\ IF ResizeStartReturns(cols, colIndex, allowResize)
           THEN /\ ResizeRecord("refused", colIndex, <<>>, clientX)
                /\ UNCHANGED <<columnWidths, resizeData, resizingColumn, listeners,
                               dragCount>>
           ELSE /\ dragCount < MaxDrags
                /\ dragCount' = dragCount + 1
                /\ columnWidths' = locked
                /\ resizeData' =
                        [leftColumn |-> cols[colIndex].key,
                         rightColumn |-> cols[colIndex + 1].key,
                         startX |-> clientX,
                         leftStartWidth |->
                             OffsetWidth(locked, layout, cols[colIndex].key),
                         rightStartWidth |->
                             OffsetWidth(locked, layout, cols[colIndex + 1].key),
                         minWidth |-> MinWidth]
                /\ resizingColumn' = cols[colIndex].key
                /\ listeners' = listeners \cup {"mousemove", "mouseup"}
                /\ ResizeRecord("start", colIndex, locks, clientX)
        /\ UNCHANGED <<filterVars, evalVars, sortVars, viewVars, allowResize, visibleColumns,
                       layout, unmounted>>

\* the onColumnResize calls of handleResizeMove(e)
ResizeMoveCalls(clientX) ==
    IF resizeData = NoResize THEN <<>>
    ELSE IF clientX - resizeData.startX = 0 THEN <<>>
    ELSE LET new == ResizeWidths(resizeData.leftStartWidth,
                                 resizeData.rightStartWidth,
                                 clientX - resizeData.startX, resizeData.minWidth)
         IN  << [key |-> resizeData.leftColumn, width |-> Px(new[1])],
                [key |-> resizeData.rightColumn, width |-> Px(new[2])] >>

\* a mousemove on document: handleResizeMove runs if it is registered
MouseMove(clientX) ==
    LET resizes == IF "mousemove" \in listeners THEN ResizeMoveCalls(clientX)
                   ELSE <<>>
    IN  /\ columnWidths' = ApplyResizes(columnWidths, resizes, 1)
        /\ ResizeRecord("move", 0, resizes, clientX)
        /\ UNCHANGED <<filterVars, evalVars, sortVars, viewVars, allowResize, visibleColumns,
                       layout, resizeData, resizingColumn, listeners, unmounted,
                       dragCount>>

\* a mouseup on document: handleResizeEnd runs if it is registered
MouseUp ==
    /\ IF "mouseup" \in listeners
       THEN /\ resizeData' = NoResize
            /\ resizingColumn' = Null
            /\ listeners' = RemoveListeners(listeners)
       ELSE UNCHANGED <<resizeData, resizingColumn, listeners>>
    /\ ResizeRecord("up", 0, <<>>, pointerX)
    /\ UNCHANGED <<filterVars, evalVars, sortVars, viewVars, allowResize, visibleColumns,
                   columnWidths, layout, unmounted, dragCount>>

\* onCleanup of DataTable without the removeEventListener calls
TableCleanup_KeepsListeners ==
    /\ ~unmounted
    /\ unmounted' = TRUE
    /\ ResizeRecord("cleanup", 0, <<>>, pointerX)
    /\ UNCHANGED <<filterVars, evalVars, sortVars, viewVars, allowResize, visibleColumns,
                   columnWidths, layout, resizeData, resizingColumn, listeners,
                   dragCount>>

\* onCleanup of DataTable: the table is torn down
TableCleanup ==
    /\ ~unmounted
    /\ unmounted' = TRUE
    /\ listeners' = RemoveListeners(listeners)
    /\ ResizeRecord("cleanup", 0, <<>>, pointerX)
    /\ UNCHANGED <<filterVars, evalVars, sortVars, viewVars, allowResize, visibleColumns,
                   columnWidths, layout, resizeData, resizingColumn, dragCount>>

\* a table with its width map as getInitialWidths leaves it
ResizeInit ==
    /\ FilterInit
    /\ columns = <<"name", "n">>
    /\ isAutoApply = TRUE
    /\ EvalIdle
    /\ SortIdle
    /\ ViewIdle
    /\ allowResize \in BOOLEAN
    /\ visibleColumns \in VisibleChoices
    /\ columnWidths = GetInitialWidths(TableColumns)
    /\ layout \in LayoutChoices
    /\ resizeData = NoResize
    /\ resizingColumn = Null
    /\ listeners = {}
    /\ unmounted = FALSE
    /\ dragCount = 0
    /\ resizeEvent = "init"
    /\ resizeCalls = <<>>
    /\ startIndex = 0
    /\ pointerX = 0

\* ------------------------------------------------------------------ column selector

\* a change of a checkbox of the column selector: toggleColumn(columnKey)
ColumnToggle(columnKey) ==
    /\ toggleCount < MaxToggles
    /\ toggleCount' = toggleCount + 1
    /\ visibleColumns' = ToggleColumn(visibleColumns, columnKey)
    /\ ResizeRecord("toggle", 0, <<>>, pointerX)
    /\ viewKey' = columnKey
    /\ UNCHANGED <<filterVars, evalVars, sortVars, allowResize, columnWidths,
                   layout, resizeData, resizingColumn, listeners, unmounted,
                   dragCount, exportType, showExportModal>>

\* the All button of the column selector: selectAllColumns
SelectAllColumns ==
    /\ visibleColumns' = AllColumnKeys(TableColumns)
    /\ ResizeRecord("all", 0, <<>>, pointerX)
    /\ viewKey' = Null
    /\ UNCHANGED <<filterVars, evalVars, sortVars, allowResize, columnWidths,
                   layout, resizeData, resizingColumn, listeners, unmounted,
                   dragCount, toggleCount, exportType, showExportModal>>

\* the Reset button of the column selector: selectNoColumns
SelectNoColumns ==
    /\ visibleColumns' = SelectNoColumnsKeys(TableColumns)
    /\ ResizeRecord("none", 0, <<>>, pointerX)
    /\ viewKey' = Null
    /\ UNCHANGED <<filterVars, evalVars, sortVars, allowResize, columnWidths,
                   layout, resizeData, resizingColumn, listeners, unmounted,
                   dragCount, toggleCount, exportType, showExportModal>>

\* the column selector is part of FilterableTable, which holds the table
ColumnSelection ==
    /\ ~unmounted
    /\ \/ \E columnKey \in ColumnKeys : ColumnToggle(columnKey)
       \/ SelectAllColumns
       \/ SelectNoColumns

\* a resizable table in which columns are shown and hidden between and during
\* drags; every header cell is laid out 100 wide
ViewInit ==
    /\ ResizeInit
    /\ allowResize
    /\ layout = [k \in ColumnKeys |-> 100]

ViewNext ==
    \/ ColumnSelection
    \/ \E colIndex \in ViewStartIndices : \E clientX \in ViewStartXs :
            ResizeStart(colIndex, clientX)
    \/ \E clientX \in ViewPointerXs : MouseMove(clientX)
    \/ MouseUp

SpecView == ViewInit /\ [][ViewNext]_vars

\* ------------------------------------------------------------------ export runs

\* what every operation of the export dialog but the download records
DialogRecord(event) == ResizeRecord(event, 0, <<>>, pointerX)

\* the Export button: setShowExportModal(true)
OpenExport ==
    /\ ~showExportModal
    /\ showExportModal' = TRUE
    /\ DialogRecord("openExport")
    /\ UNCHANGED <<filterVars, evalVars, sortVars, allowResize, visibleColumns,
                   columnWidths, layout, resizeData, resizingColumn, listeners,
                   unmounted, dragCount, toggleCount, viewKey, exportType>>

\* a radio button of the dialog: setExportType(type)
SetExportType(type) ==
    /\ showExportModal
    /\ type # exportType
    /\ exportType' = type
    /\ DialogRecord("exportType")
    /\ UNCHANGED <<filterVars, evalVars, sortVars, allowResize, visibleColumns,
                   columnWidths, layout, resizeData, resizingColumn, listeners,
                   unmounted, dragCount, toggleCount, viewKey, showExportModal>>

\* Cancel, the close button or a click on the backdrop: setShowExportModal(false)
CancelExport ==
    /\ showExportModal
    /\ showExportModal' = FALSE
    /\ DialogRecord("cancelExport")
    /\ UNCHANGED <<filterVars, evalVars, sortVars, allowResize, visibleColumns,
                   columnWidths, layout, resizeData, resizingColumn, listeners,
                   unmounted, dragCount, toggleCount, viewKey, exportType>>

\* Download CSV: handleExport. The file is a Blob of the byte order mark and
\* csvContent; its name holds the time of the export, which is not modelled.
HandleExport ==
    LET fields == CsvFields(DataToExport(exportType, processed, rawRows),
                            ColumnsToExport(TableColumns, visibleColumns))
    IN  /\ showExportModal
        /\ exported' = [type |-> exportType,
                        fields |-> fields,
                        content |-> <<ByteOrderMark>> \o CsvContent(fields)]
        /\ showExportModal' = FALSE
        /\ resizeEvent' = "export"
        /\ UNCHANGED <<filterVars, evalVars, sortVars, allowResize, visibleColumns,
                       columnWidths, layout, resizeData, resizingColumn, listeners,
                       unmounted, dragCount, resizeCalls, startIndex, pointerX,
                       toggleCount, viewKey, exportType>>

\* a table over a raw collection whose cells need quoting, with a pattern
\* typed into the default condition of its filter, which applies on Enter
ExportInit ==
    /\ TableInit(ExportData)
    /\ store[2].regex = Text_A

\* the rows are sorted by the column of booleans, and the first column is the
\* one shown and hidden
ExportNext ==
    \/ OpenExport
    \/ \E type \in {"visible", "all"} : SetExportType(type)
    \/ CancelExport
    \/ HandleExport
    \/ EnterKey
    \/ HeaderClick(TableColumns[3])
    \/ ColumnToggle("name")
    \/ SelectNoColumns

SpecExport == ExportInit /\ [][ExportNext]_vars

\* ------------------------------------------------------------------ reset runs

\* a table that is sorted by header clicks, whose first column is hidden and
\* shown and dragged against its neighbour, and whose filter is reset
ResetInit == TableInit(ExportData)

ResetNext ==
    \/ Reset
    \/ \E k \in {2, 3} : HeaderClick(TableColumns[k])
    \/ ColumnToggle("name")
    \/ SelectNoColumns
    \/ ResizeStart(1, 200)
    \/ MouseMove(230)
    \/ MouseUp

SpecReset == ResetInit /\ [][ResetNext]_vars

ResizeNext ==
    \/ \E colIndex \in 1..Len(TableColumns) : \E clientX \in StartXs :
            ResizeStart(colIndex, clientX)
    \/ \E clientX \in PointerXs : MouseMove(clientX)
    \/ MouseUp
    \/ TableCleanup

SpecResize == ResizeInit /\ [][ResizeNext]_vars

\* ------------------------------------------------------------------ properties

\* the evaluator applyFilter would publish in the current state
CurrentEvaluator == CreateEvaluator(BuildFilterWithValues(filterRoot, store))

\* C1: with auto-apply on, an edit publishes nothing and leaves exactly one
\* timer armed (the one it set, the timer of the edit before being cleared), and
\* the firing of that timer is one publish of the predicate compiled from the
\* tree and the store as they are then, after which no timer is armed.
C1_DebounceOnePublish ==
    /\ lastEvent = "edit" => calls = <<>>
    /\ lastEvent = "edit" /\ isAutoApply =>
            /\ debouncedTimerRef # 0
            /\ timers = {debouncedTimerRef}
            /\ covered >= 1
    /\ lastEvent = "timer" =>
            /\ calls = <<"onFilterChange">>
            /\ timers = {}
            /\ published = CurrentEvaluator

\* three edits, each before the timer of the one before fired, then the one
\* publish, of a predicate that rejects some row
C1_Witness ==
    /\ lastEvent = "timer"
    /\ covered = 3
    /\ isAutoApply
    /\ published = CurrentEvaluator
    /\ shown # DataRows

\* C2 as stated: Enter cancels any armed timer and publishes the predicate of
\* the current tree at once, whether auto-apply is on or off.
C2_EnterAppliesInBothModes ==
    lastEvent = "enter" =>
        /\ calls = <<"onFilterChange">>
        /\ timers = {}
        /\ published = CurrentEvaluator

\* C2 as amended: with auto-apply off, Enter cancels any armed timer and
\* publishes the predicate of the current tree at once; with auto-apply on,
\* Enter publishes nothing and cancels nothing.
C2_EnterAppliesWhenManual ==
    lastEvent = "enter" =>
        IF ~isAutoApply
        THEN /\ calls = <<"onFilterChange">>
             /\ timers = {}
             /\ debouncedTimerRef = 0
             /\ published = CurrentEvaluator
        ELSE /\ calls = <<>>
             /\ ~cancelled

\* Enter with auto-apply off cancelled an armed timer and published
C2_Witness ==
    /\ lastEvent = "enter"
    /\ ~isAutoApply
    /\ cancelled
    /\ published = CurrentEvaluator
    /\ shown # DataRows

\* C3: while auto-apply is off, a predicate compiled from the tree is
\* published by Enter only, never by a timer.
C3_OnlyEnterAppliesWhenManual ==
    ~isAutoApply /\ calls = <<"onFilterChange">> => lastEvent = "enter"

\* C4: after a reset no timer is armed.
C4_ResetCancelsTimer ==
    lastEvent = "reset" => timers = {}

\* C5: a reset publishes the constant-true predicate and calls onReset,
\* whatever the tree holds, and changes neither the tree nor the store.
C5_ResetPublishesTrueKeepsTree ==
    /\ [](lastEvent = "reset" =>
            /\ published = ConstTrue
            /\ shown = DataRows
            /\ calls = <<"onFilterChange", "onReset">>)
    /\ [][lastEvent' = "reset" => filterRoot' = filterRoot /\ store' = store]_vars

\* a reset over a tree whose predicate rejects some row
C5_Witness ==
    /\ lastEvent = "reset"
    /\ published = ConstTrue
    /\ FilterRows(CurrentEvaluator) # DataRows
    /\ Len(filterRoot.children) >= 2

\* C6: once the component is disposed no timer is armed and no handler runs,
\* so nothing is published after the cleanup.
C6_NoPublishAfterCleanup ==
    disposed => timers = {} /\ lastEvent = "cleanup"

\* the cleanup cancelled a timer that was armed
C6_Witness ==
    /\ disposed
    /\ cancelled
    /\ debouncedTimerRef # 0

\* what a tree says of a row, read off the definition of AND and OR
RECURSIVE Holds(_, _)
Holds(node, row) ==
    IF node.type = "condition" THEN EvaluateCondition(node, row).value
    ELSE IF Len(node.children) = 0 THEN TRUE
    ELSE IF node.operator = "AND"
         THEN \A i \in 1..Len(node.children) : Holds(node.children[i], row)
         ELSE \E i \in 1..Len(node.children) : Holds(node.children[i], row)

HasRun == DOMAIN evalResult # {}

\* C7: an empty group is true, an AND group is true exactly when all its
\* children are, an OR group exactly when one of them is, through every level.
C7_GroupSemantics ==
    HasRun => \A row \in DataRows : evalResult[row] = Returned(Holds(evalTree, row))

\* an AND root over a passing child and a failing, non-empty nested OR group
C7_Witness ==
    /\ HasRun
    /\ evalTree.operator = "AND"
    /\ Len(evalTree.children) = 2
    /\ evalTree.children[2].type = "group"
    /\ evalTree.children[2].operator = "OR"
    /\ Len(evalTree.children[2].children) >= 1
    /\ \E row \in DataRows :
            /\ Holds(evalTree.children[1], row)
            /\ ~Holds(evalTree.children[2], row)
            /\ evalResult[row] = Returned(FALSE)

EmptyPatternPaths(root) ==
    {p \in ConditionPaths(root) : NodeAt(root, p).regex = EmptyText}

\* C8: a condition with the empty pattern is true of every row, whatever its
\* column; a tree all of whose conditions are such accepts every row.
C8_EmptyPatternTrue ==
    /\ \A p \in EmptyPatternPaths(evalTree) : \A row \in DataRows :
            EvaluateNode(NodeAt(evalTree, p), row) = Returned(TRUE)
    /\ HasRun /\ EmptyPatternPaths(evalTree) = ConditionPaths(evalTree) =>
            \A row \in DataRows : evalResult[row] = Returned(TRUE)

\* a tree of empty-pattern conditions on the empty, an unknown and a known
\* column was run
C8_Witness ==
    /\ HasRun
    /\ EmptyPatternPaths(evalTree) = ConditionPaths(evalTree)
    /\ {NodeAt(evalTree, p).column : p \in ConditionPaths(evalTree)}
            = {"", "zz", "name"}
    /\ \A row \in DataRows : evalResult[row] = Returned(TRUE)

InvalidPatternPaths(root) ==
    {p \in ConditionPaths(root) : RegExpThrows(NodeAt(root, p).regex)}

\* what a tree says of a row when a condition with an invalid pattern counts
\* as false
RECURSIVE HoldsFailClosed(_, _)
HoldsFailClosed(node, row) ==
    IF node.type = "condition"
    THEN IF node.regex = EmptyText THEN TRUE
         ELSE IF RegExpThrows(node.regex) THEN FALSE
         ELSE RegExpTest(node.regex, IF node.caseSensitive THEN "" ELSE "i",
                         StrValue(RowGet(row, node.column)))
    ELSE IF Len(node.children) = 0 THEN TRUE
    ELSE IF node.operator = "AND"
         THEN \A i \in 1..Len(node.children) : HoldsFailClosed(node.children[i], row)
         ELSE \E i \in 1..Len(node.children) : HoldsFailClosed(node.children[i], row)

\* C9: a condition with an invalid pattern is false of every row, no exception
\* leaves the predicate, and the tree's result is that of the tree with the
\* condition counted as false.
C9_InvalidPatternFailsClosed ==
    /\ \A p \in InvalidPatternPaths(evalTree) : \A row \in DataRows :
            EvaluateNode(NodeAt(evalTree, p), row) = Returned(FALSE)
    /\ HasRun => \A row \in DataRows :
            /\ ~evalResult[row].throws
            /\ evalResult[row].value = HoldsFailClosed(evalTree, row)

\* an OR root whose first child has an invalid pattern accepted one row and
\* rejected another
C9_Witness ==
    /\ HasRun
    /\ evalTree.operator = "OR"
    /\ Len(evalTree.children) >= 2
    /\ <<1>> \in InvalidPatternPaths(evalTree)
    /\ \E row \in DataRows : evalResult[row] = Returned(TRUE)
    /\ \E row \in DataRows : evalResult[row] = Returned(FALSE)

\* C10: a published predicate gives, whenever it is called, the results it gave
\* when it was published, whatever was edited since; what is published by a
\* timer or by Enter is compiled from the tree and the store of that moment.
C10_PublishedIsSnapshot ==
    /\ shown = FilterRows(published)
    /\ \A row \in DataRows : ~CallEvaluator(published, row).throws
    /\ lastEvent \in {"timer", "enter"} /\ calls # <<>> =>
            published = CurrentEvaluator

\* after an edit, the published predicate rejects a row the current tree lets
\* through or the other way round
C10_Witness ==
    /\ lastEvent = "edit"
    /\ published.kind = "evaluateNode"
    /\ FilterRows(CurrentEvaluator) # shown

\* the ids of the conditions of a subtree
ConditionIds(node) ==
    {ConditionsOf(node)[i].id : i \in 1..Len(ConditionsOf(node))}

C12_SortCycle ==
    [][lastEvent' = "sort" =>
            IF sortState.column # clicked'
            THEN sortState' = SortState(clicked', "asc")
            ELSE IF sortState.direction = "asc"
            THEN sortState' = SortState(clicked', "desc")
            ELSE IF sortState.direction = "desc"
            THEN sortState' = SortState(Null, Null)
            ELSE TRUE]_vars

\* the third click on a column left the table unsorted
C12_Witness ==
    /\ lastEvent = "sort"
    /\ clicked = "n"
    /\ sortState = SortState(Null, Null)
    /\ Len(rawRows) = 3

\* C13: the sort column is null exactly when the sort direction is null.
C13_ColumnNullIffDirectionNull ==
    sortState.column = Null <=> sortState.direction = Null

\* C14: sortData leaves the array it is given as it was (the rows that pass
\* the filter, in the order of the raw collection), and without a sort column
\* or direction it returns the rows in that order.
C14_SortLeavesInput ==
    /\ sortInput = Filtered(rawRows, published)
    /\ sortState.column = Null \/ sortState.direction = Null =>
            processed = sortInput

\* an active sort returned three rows in another order than they were given
C14_Witness ==
    /\ lastEvent = "sort"
    /\ sortState.column # Null
    /\ sortState.direction # Null
    /\ Len(sortInput) = 3
    /\ processed # sortInput
    /\ sortInput = rawRows

\* the sort key of a row: its raw value in the sort column
SortKey(row) == GetRawValue(row, sortState.column)

\* C15: with an active sort the result is the input in another order, with
\* keys that do not decrease (asc) or do not increase (desc) from any row to
\* any later one, and rows of equal keys in the order of the input.
C15_SortedStablePermutation ==
    sortState.column # Null /\ sortState.direction # Null =>
        \E p \in IndexOrders(Len(sortInput)) :
            /\ processed = [i \in 1..Len(sortInput) |-> sortInput[p[i]]]
            /\ \A i, j \in 1..Len(processed) : i < j =>
                    LET c == Comparison(SortKey(processed[i]), SortKey(processed[j]))
                    IN  /\ sortState.direction = "asc" => c <= 0
                        /\ sortState.direction = "desc" => c >= 0
                        /\ c = 0 => p[i] < p[j]

\* a pointer move that published widths
MovePublished == resizeEvent = "move" /\ resizeCalls # <<>>

\* the pair of widths it published
PublishedPair == <<resizeCalls[1].width.n, resizeCalls[2].width.n>>

\* C16: every pointer move of a drag that publishes widths publishes one for
\* the left and one for the right column of the drag, and the two add up to
\* leftStartWidth + rightStartWidth, clamped or not.
C16_PairWidthConserved ==
    MovePublished =>
        /\ Len(resizeCalls) = 2
        /\ resizeCalls[1].key = resizeData.leftColumn
        /\ resizeCalls[2].key = resizeData.rightColumn
        /\ resizeCalls[1].width.unit = "px" /\ resizeCalls[2].width.unit = "px"
        /\ PublishedPair[1] + PublishedPair[2]
                = resizeData.leftStartWidth + resizeData.rightStartWidth
        /\ columnWidths[resizeData.leftColumn] = Px(PublishedPair[1])
        /\ columnWidths[resizeData.rightColumn] = Px(PublishedPair[2])

\* a move clamped a pair whose widths add up to less than twice the minimum
C16_Witness ==
    /\ MovePublished
    /\ resizeData.leftStartWidth + resizeData.rightStartWidth < 2 * MinWidth
    /\ PublishedPair[1] # resizeData.leftStartWidth + (pointerX - resizeData.startX)

\* the rule for the new widths: the left width is clamped first, else the right
RuleWidths(leftStartWidth, rightStartWidth, delta, minWidth) ==
    LET total == leftStartWidth + rightStartWidth IN
    IF leftStartWidth + delta < minWidth THEN <<minWidth, total - minWidth>>
    ELSE IF rightStartWidth - delta < minWidth THEN <<total - minWidth, minWidth>>
    ELSE <<leftStartWidth + delta, rightStartWidth - delta>>

\* C17: the pair a pointer move publishes is the rule's: (left + delta,
\* right - delta) when neither is below minWidth, (minWidth, total - minWidth)
\* if left + delta is, else (total - minWidth, minWidth) if right - delta is.
C17_WidthsFollowRule ==
    MovePublished =>
        PublishedPair = RuleWidths(resizeData.leftStartWidth,
                                   resizeData.rightStartWidth,
                                   pointerX - resizeData.startX, resizeData.minWidth)

\* C18: a resize start that arrives while a drag is active (its mouseup has
\* not come) changes neither the tracked drag nor the width map.
C18_OneResizeAtATime ==
    [][resizeData # NoResize /\ "mouseup" \in listeners
            /\ dragCount' = dragCount + 1 =>
                /\ resizeData' = resizeData
                /\ columnWidths' = columnWidths]_vars

\* C19: the two listeners are registered only while a drag is active: none
\* before the first drag, none after a mouseup, none after the teardown, and
\* a pointer move after the end of the drag or after the teardown, even of a
\* drag that never ended, makes no onColumnResize call and leaves the width map.
C19_ListenersOnlyDuringDrag ==
    /\ [](/\ listeners # {} =>
                /\ listeners = {"mousemove", "mouseup"}
                /\ resizeData # NoResize
                /\ ~unmounted
          /\ dragCount = 0 => listeners = {}
          /\ resizeEvent \in {"up", "cleanup"} => listeners = {})
    /\ [][(resizeData = NoResize \/ unmounted) /\ resizeEvent' = "move" =>
                /\ columnWidths' = columnWidths
                /\ resizeCalls' = <<>>]_vars

\* the table was torn down in the middle of a drag, and the pointer moved on
C19_Witness ==
    /\ unmounted
    /\ resizeData # NoResize
    /\ resizeEvent = "move"
    /\ pointerX # resizeData.startX
    /\ resizeCalls = <<>>
    /\ listeners = {}

\* C20: a drag start sets the entry of every visible column to the width the
\* column is rendered at and tracks a visible column and its right visible
\* neighbour; a pointer move changes no entry but those of these two.
C20_StartLocksAllMoveTouchesPair ==
    /\ [][dragCount' = dragCount + 1 =>
            LET cols == VisibleCols(TableColumns, visibleColumns) IN
            /\ \A i \in 1..Len(cols) :
                    columnWidths'[cols[i].key]
                        = Px(OffsetWidth(columnWidths, layout, cols[i].key))
            /\ \E i \in 1..(Len(cols) - 1) :
                    /\ resizeData'.leftColumn = cols[i].key
                    /\ resizeData'.rightColumn = cols[i + 1].key]_vars
    /\ [][resizeEvent' = "move" =>
            \A key \in ColumnKeys :
                columnWidths'[key] # columnWidths[key] =>
                    /\ resizeData # NoResize
                    /\ key \in {resizeData.leftColumn, resizeData.rightColumn}]_vars

\* a drag of the first visible column against its right visible neighbour,
\* past a hidden column: the moves left the third visible column at the
\* width it was rendered at and the hidden column at its initial width
C20_Witness ==
    /\ MovePublished
    /\ visibleColumns = <<"name", "ok", "tag">>
    /\ resizeData.leftColumn = "name"
    /\ resizeData.rightColumn = "ok"
    /\ columnWidths["name"] # Px(layout["name"])
    /\ columnWidths["tag"] = Px(layout["tag"])
    /\ columnWidths["n"] = Percent(25)

\* C21: a call of handleResizeStart on a table whose resizing is off, for a
\* column that is not resizable or whose right neighbour is not, or for the
\* last visible column begins no drag and leaves the width map, and no resizer
\* is rendered for that column.
C21_RefusedStartChangesNothing ==
    [][resizeEvent' \in {"start", "refused"} =>
            LET cols == VisibleCols(TableColumns, visibleColumns)
                i == startIndex'
            IN  (\/ ~allowResize
                 \/ i >= Len(cols)
                 \/ ~cols[i].resizable
                 \/ ~cols[i + 1].resizable) =>
                    /\ resizeEvent' = "refused"
                    /\ columnWidths' = columnWidths
                    /\ resizeData' = resizeData
                    /\ resizingColumn' = resizingColumn
                    /\ listeners' = listeners
                    /\ dragCount' = dragCount
                    /\ ~CanShowResizer(cols, i, allowResize)]_vars

\* after a drag on a table whose resizing is on, the start on the column whose
\* right neighbour is not resizable was refused
C21_Witness ==
    /\ resizeEvent = "refused"
    /\ allowResize
    /\ visibleColumns = <<"name", "n", "ok", "tag">>
    /\ startIndex = 3
    /\ dragCount = 1
    /\ resizeData = NoResize
    /\ columnWidths["ok"].unit = "px"

\* no key occurs twice in the sequence
NoDuplicates(keys) ==
    \A i, j \in 1..Len(keys) : keys[i] = keys[j] => i = j

\* C22: from visible columns that are not empty and hold no key twice, no
\* use of the column selector makes them empty or makes a key occur twice,
\* and toggleColumn on the only visible column leaves them as they are.
C22_ToggleKeepsOneVisible ==
    /\ [](visibleColumns # <<>> /\ NoDuplicates(visibleColumns))
    /\ [][resizeEvent' = "toggle" /\ toggleCount' = toggleCount + 1 =>
            /\ visibleColumns = <<viewKey'>> => visibleColumns' = visibleColumns
            /\ visibleColumns' # <<>>
            /\ NoDuplicates(visibleColumns')]_vars

\* the toggle of the only visible column left it visible
C22_Witness ==
    /\ resizeEvent = "toggle"
    /\ viewKey = "name"
    /\ visibleColumns = <<"name">>
    /\ toggleCount = 1

\* the keys of a list of column definitions
KeysOf(cols) == [i \in 1..Len(cols) |-> cols[i].key]

\* the place of a key in the column definitions
ColumnPosition(key) == CHOOSE k \in 1..Len(TableColumns) : TableColumns[k].key = key

\* the columns are in the order of the column definitions
InDefinitionOrder(keys) ==
    \A i, j \in 1..Len(keys) :
        i < j => ColumnPosition(keys[i]) < ColumnPosition(keys[j])

\* the keys of the sequence, as a set
KeySet(keys) == {keys[i] : i \in 1..Len(keys)}

\* C23 as stated: the table shows the columns, and the export writes them,
\* in the order of the visible-columns sequence.
C23_DisplayOrderIsInsertionOrder ==
    /\ KeysOf(VisibleCols(TableColumns, visibleColumns)) = visibleColumns
    /\ KeysOf(ColumnsToExport(TableColumns, visibleColumns)) = visibleColumns

\* C23, amended: the table shows, and the export writes, exactly the columns
\* whose key is in the visible-columns sequence, each once, in the order of
\* the column definitions, whatever the order of the sequence is.
C23_DisplayOrderIsDefinitionOrder ==
    LET displayed == KeysOf(VisibleCols(TableColumns, visibleColumns))
        written == KeysOf(ColumnsToExport(TableColumns, visibleColumns))
    IN  /\ KeySet(displayed) = KeySet(visibleColumns) \cap ColumnKeys
        /\ InDefinitionOrder(displayed)
        /\ written = displayed

\* the first column was hidden and shown again: it is the last key of the
\* sequence and the first column of the table
C23_Witness ==
    /\ resizeEvent = "toggle"
    /\ viewKey = "name"
    /\ visibleColumns = <<"n", "ok", "tag", "name">>
    /\ VisibleCols(TableColumns, visibleColumns)[1].key = "name"

\* C29: the width map has an entry for every column at all times, a hidden one
\* included, and a step changes the map only by the onColumnResize calls of a
\* drag start or of a pointer move.
C29_WidthKeysPersist ==
    /\ [](DOMAIN columnWidths = ColumnKeys)
    /\ [][/\ DOMAIN columnWidths \subseteq DOMAIN columnWidths'
          /\ columnWidths' # columnWidths =>
                /\ resizeEvent' \in {"start", "move"}
                /\ resizeCalls' # <<>>
                /\ \A key \in ColumnKeys :
                        columnWidths'[key] # columnWidths[key] =>
                            \E i \in 1..Len(resizeCalls') :
                                /\ resizeCalls'[i].key = key
                                /\ resizeCalls'[i].width = columnWidths'[key]]_vars

\* a column was hidden in the middle of a drag that had given it a width in
\* pixels, and the pointer moved on: its entry is the one the move published
C29_Witness ==
    /\ MovePublished
    /\ toggleCount > 0
    /\ ~Includes(visibleColumns, resizeData.rightColumn)
    /\ columnWidths[resizeData.rightColumn] = Px(PublishedPair[2])
    /\ PublishedPair[2] # resizeData.rightStartWidth

\* the row lists the processedData memo can return for a predicate and a sort
\* state: the filtered rows, sorted
SortOfFilter(data, evaluator, state) ==
    {outcome.result : outcome \in SortData(Filtered(data, evaluator), state)}

\* C24: in every state the processedData memo holds the raw rows filtered by
\* the predicate in force and sorted by the sort state in force, and the
\* observer callback was called with that list in the step that computed it;
\* in a step that changes the raw rows, the predicate or the sort state, every
\* list the callback is called with is the raw rows filtered and sorted by the
\* new predicate and a sort state of that step.
C24_ProcessedIsSortOfFilter ==
    /\ [](/\ processed \in SortOfFilter(rawRows, published, sortState)
          /\ processed \in observed)
    /\ [][<<rawRows, published, sortState, observed>>'
                # <<rawRows, published, sortState, observed>> =>
            observed' \subseteq
                SortOfFilter(rawRows', published', sortState')
                    \cup SortOfFilter(rawRows', published', sortState)]_vars

\* after a filter was applied, a header clicked and a row added, the memo holds
\* fewer rows than the raw collection, in another order
C24_Witness ==
    /\ lastEvent = "data"
    /\ published # ConstTrue
    /\ sortState = SortState("n", "asc")
    /\ Len(rawRows) = 2
    /\ Len(processed) = 1
    /\ processed[1] = rawRows[2]

\* the rows an export writes, by its type
ExportedRows == IF exported.type = "visible" THEN processed ELSE rawRows

\* the text needs quotes: it holds a comma, a double quote or a line feed
NeedsQuotes(str) ==
    \E i \in 1..Len(str) : str[i] \in {Comma, DoubleQuote, LineFeed}

\* the text with every pair of double quotes read as one
RECURSIVE Undoubled(_)
Undoubled(str) ==
    IF str = <<>> THEN <<>>
    ELSE IF Len(str) >= 2 /\ str[1] = DoubleQuote /\ str[2] = DoubleQuote
         THEN <<DoubleQuote>> \o Undoubled(SubSeq(str, 3, Len(str)))
    ELSE <<Head(str)>> \o Undoubled(Tail(str))

\* the number of double quotes of the text
QuoteCount(str) == Cardinality({i \in 1..Len(str) : str[i] = DoubleQuote})

\* C25: in the file of an export the field of a null or missing cell is empty,
\* that of a boolean is Yes or No, and that of any other cell is its string
\* form: as it is if it holds no comma, double quote or line feed, and else
\* between double quotes with every double quote of it written twice.
C25_CellsQuotedIffNeeded ==
    exported # NoDownload =>
        LET cols == VisibleCols(TableColumns, visibleColumns) IN
        /\ Len(exported.fields) = Len(ExportedRows) + 1
        /\ \A i \in 1..Len(ExportedRows) : \A j \in 1..Len(cols) :
            LET value == RowGet(ExportedRows[i], cols[j].key)
                field == exported.fields[i + 1][j]
                inner == SubSeq(field, 2, Len(field) - 1)
            IN  IF value.t \in {"null", "undefined"} THEN field = <<>>
                ELSE IF value.t = "boolean"
                     THEN field = IF value.bool THEN <<"Y", "e", "s">>
                                  ELSE <<"N", "o">>
                ELSE IF NeedsQuotes(StrValue(value))
                     THEN /\ Len(field) >= 2
                          /\ field[1] = DoubleQuote
                          /\ field[Len(field)] = DoubleQuote
                          /\ QuoteCount(inner) = 2 * QuoteCount(StrValue(value))
                          /\ Undoubled(inner) = StrValue(value)
                     ELSE field = StrValue(value)

\* an export of all rows wrote a text with a comma and a text with a double
\* quote between quotes, a null and a missing cell as nothing, a number as it
\* is and the booleans as Yes and No
C25_Witness ==
    /\ exported # NoDownload
    /\ exported.type = "all"
    /\ visibleColumns = <<"name", "n", "ok", "tag">>
    /\ rawRows = <<ExportRows.x, ExportRows.q>>
    /\ exported.fields[2] =
            << <<DoubleQuote, "x", Comma, "y", DoubleQuote>>, <<>>,
               <<"Y", "e", "s">>, <<>> >>
    /\ exported.fields[3] =
            << <<DoubleQuote, "a", DoubleQuote, DoubleQuote, "b", DoubleQuote>>,
               <<"1", "0">>, <<"N", "o">>, <<"a", "b">> >>

\* the keys of the column definitions that are visible, in their order
VisibleKeys ==
    SelectSeq(AllColumnKeys(TableColumns),
              LAMBDA key : key \in KeySet(visibleColumns))

\* C26: the file of an export in visible mode holds one line of fields for
\* every row of the processedData memo, in the memo's order, and in all mode
\* one for every row of props.data, in its order; a line holds the cells of
\* the visible columns and no other, and the first line holds their labels.
C26_ExportsCurrentRowsAndColumns ==
    exported # NoDownload =>
        /\ Len(exported.fields) = Len(ExportedRows) + 1
        /\ Len(exported.fields[1]) = Len(VisibleKeys)
        /\ \A j \in 1..Len(VisibleKeys) :
                exported.fields[1][j]
                    = TableColumns[ColumnPosition(VisibleKeys[j])].label
        /\ \A i \in 1..Len(ExportedRows) :
                /\ Len(exported.fields[i + 1]) = Len(VisibleKeys)
                /\ \A j \in 1..Len(VisibleKeys) :
                        exported.fields[i + 1][j]
                            = CsvCell(RowGet(ExportedRows[i], VisibleKeys[j]))
        /\ exported.content
                = <<ByteOrderMark>> \o
                  Join([i \in 1..Len(exported.fields) |->
                            Join(exported.fields[i], Comma)], LineFeed)

\* an export in visible mode of rows that are filtered and sorted, while the
\* first column is hidden: two of the three rows, the last one first
C26_Witness ==
    /\ exported # NoDownload
    /\ exported.type = "visible"
    /\ published # ConstTrue
    /\ sortState = SortState("ok", "asc")
    /\ rawRows = <<ExportRows.l, ExportRows.x, ExportRows.q>>
    /\ processed = <<ExportRows.q, ExportRows.l>>
    /\ visibleColumns = <<"n", "ok", "tag">>
    /\ exported.fields = << <<<<"N">>, <<"O", "K">>, <<"T", "a", "g">>>>,
                            <<<<"1", "0">>, <<"N", "o">>, <<"a", "b">>>>,
                            <<<<"9">>, <<"Y", "e", "s">>, <<>>>> >>

\* the ids of the nodes of a tree, in the order a traversal visits them
RECURSIVE NodeIds(_)
RECURSIVE NodeIdsOfList(_, _)
NodeIds(node) ==
    IF node.type = "condition" THEN <<node.id>>
    ELSE <<node.id>> \o NodeIdsOfList(node.children, 1)
NodeIdsOfList(children, i) ==
    IF i > Len(children) THEN <<>>
    ELSE NodeIds(children[i]) \o NodeIdsOfList(children, i + 1)

\* part is what is left of whole when some of its elements are taken out
RECURSIVE IsSubsequence(_, _)
IsSubsequence(part, whole) ==
    IF part = <<>> THEN TRUE
    ELSE IF whole = <<>> THEN FALSE
    ELSE IF Head(part) = Head(whole)
         THEN IsSubsequence(Tail(part), Tail(whole))
              \/ IsSubsequence(part, Tail(whole))
         ELSE IsSubsequence(part, Tail(whole))

\* C27: the ids of the nodes of the filter tree are pairwise distinct in every
\* state, and every step leaves the ids of the nodes it does not remove as
\* they were: the ids before the step are the ids after it without those of
\* the nodes it added, or the ids after it are the ids before it without
\* those of the nodes it removed.
C27_NodeIdsDistinctAndStable ==
    /\ [](NoDuplicates(NodeIds(filterRoot)))
    /\ [][\/ IsSubsequence(NodeIds(filterRoot), NodeIds(filterRoot'))
          \/ IsSubsequence(NodeIds(filterRoot'), NodeIds(filterRoot))]_vars

\* the group at a path has, after a step, the id, the operator and the children
\* it had before it, and one more child after them
AppendedTo(before, after, path) ==
    /\ path \in GroupPaths(after)
    /\ LET group == NodeAt(before, path)
           updated == NodeAt(after, path)
       IN  /\ updated.id = group.id
           /\ updated.operator = group.operator
           /\ Len(updated.children) = Len(group.children) + 1
           /\ SubSeq(updated.children, 1, Len(group.children)) = group.children

LastChild(root, path) ==
    NodeAt(root, path).children[Len(NodeAt(root, path).children)]

\* a condition on the first of the columns, or on "" when there is none, with
\* an empty pattern that is not case sensitive, and its entry with these values
IsNewCondition(node, cols, st) ==
    /\ node.type = "condition"
    /\ node.column = (IF Len(cols) = 0 THEN "" ELSE Head(cols))
    /\ node.regex = EmptyText
    /\ node.caseSensitive = FALSE
    /\ node.id \in DOMAIN st
    /\ st[node.id] = [column |-> node.column, regex |-> EmptyText,
                      caseSensitive |-> FALSE]

\* C28: a step after which the tree has one node more (addCondition) appends
\* to one group, after the children it had, a condition on the first column
\* ("" without columns) with an empty pattern and caseSensitive false, whose
\* side-table entry holds the same values; a step after which it has two
\* nodes more (addGroup) appends an AND group that holds exactly one such
\* condition; the group's earlier children and operator are as they were.
C28_AddAppendsDefaultCondition ==
    [][/\ Len(NodeIds(filterRoot')) = Len(NodeIds(filterRoot)) + 1 =>
            \E path \in GroupPaths(filterRoot) :
                /\ AppendedTo(filterRoot, filterRoot', path)
                /\ IsNewCondition(LastChild(filterRoot', path), columns', store')
       /\ Len(NodeIds(filterRoot')) = Len(NodeIds(filterRoot)) + 2 =>
            \E path \in GroupPaths(filterRoot) :
                /\ AppendedTo(filterRoot, filterRoot', path)
                /\ LastChild(filterRoot', path).type = "group"
                /\ LastChild(filterRoot', path).operator = "AND"
                /\ Len(LastChild(filterRoot', path).children) = 1
                /\ IsNewCondition(LastChild(filterRoot', path).children[1],
                                  columns', store')]_vars

\* without columns, a condition and then a group were added to the root: the
\* root's third child is an AND group whose one condition is on "" with an
\* empty pattern, as is the second child, and the entry says the same
C28_Witness ==
    /\ columns = <<>>
    /\ editCount = 2
    /\ Len(filterRoot.children) = 3
    /\ filterRoot.operator = "AND"
    /\ filterRoot.children[2] = Condition(1, "", EmptyText, FALSE)
    /\ filterRoot.children[3] =
            Group(2, "AND", <<Condition(1, "", EmptyText, FALSE)>>)
    /\ store[1] = [column |-> "", regex |-> EmptyText, caseSensitive |-> FALSE]

\* C30: an apply does not fail when conditions of the tree have no side-table
\* entry (the Enter key can always be taken), and the apply step publishes a
\* snapshot in which every such condition has the column, pattern and
\* caseSensitive of the node itself, and leaves an entry with these values.
C30_MissingEntryFallsBack ==
    /\ []((~disposed /\ ConditionPaths(filterRoot) # {}) => ENABLED EnterKey)
    /\ [][(lastEvent' = "enter" /\ calls' = <<"onFilterChange">>) =>
            /\ published'.kind = "evaluateNode"
            /\ \A path \in ConditionPaths(filterRoot) :
                 LET node == NodeAt(filterRoot, path) IN
                 node.id \notin DOMAIN store =>
                    /\ NodeAt(published'.root, path) = node
                    /\ node.id \in DOMAIN store'
                    /\ store'[node.id] =
                            [column |-> node.column, regex |-> node.regex,
                             caseSensitive |-> node.caseSensitive]]_vars

\* a condition was added, its entry and the first condition's were deleted
\* from the shared store, and the filter was applied: the snapshot and the
\* entries hold "" for the first condition (its editor had put "name" and a
\* typed pattern there) and "name" for the added one
C30_Witness ==
    /\ lastEvent = "enter"
    /\ Len(filterRoot.children) = 2
    /\ published.root.children[1] = Condition(2, "", EmptyText, FALSE)
    /\ published.root.children[2] = Condition(3, "name", EmptyText, FALSE)
    /\ store[2] = [column |-> "", regex |-> EmptyText, caseSensitive |-> FALSE]
    /\ store[3] = [column |-> "name", regex |-> EmptyText,
                   caseSensitive |-> FALSE]
    /\ editCount = 2

\* the sum of a function of numbers over a set of its arguments
RECURSIVE SumOver(_, _)
SumOver(count, arguments) ==
    IF arguments = {} THEN 0
    ELSE LET argument == CHOOSE a \in arguments : TRUE
         IN  count[argument] + SumOver(count, arguments \ {argument})

\* C31: the calls of one published predicate on the rows construct, all
\* together, at most as many regular expressions as the tree has conditions.
C31_RegExpBuiltOncePerCompile ==
    HasRun => SumOver(constructed, DataRows) <= Len(ConditionsOf(evalTree))

\* C32: both widths a pointer move of a drag publishes are at least minWidth,
\* whatever the widths of the pair were at the start of the drag.
C32_PublishedWidthsAtLeastMin ==
    MovePublished =>
        /\ PublishedPair[1] >= resizeData.minWidth
        /\ PublishedPair[2] >= resizeData.minWidth

\* the rows of an array in another order
Reordered(array, order) == [i \in 1..Len(array) |-> array[order[i]]]

\* C33: with an active sort, the comparator orders the rows of the input
\* consistently, a <= b and b <= c giving a <= c for any three of them, and
\* if no two rows compare equal, the result is the same for every order in
\* which the rows could have been handed in.
C33_ComparatorConsistent ==
    sortState.column # Null /\ sortState.direction # Null =>
        LET Compare(a, b) ==
                CompareRows(a, b, sortState.column, sortState.direction)
            rows == 1..Len(sortInput)
        IN  /\ \A a, b, c \in rows :
                    /\ Compare(sortInput[a], sortInput[b]) <= 0
                    /\ Compare(sortInput[b], sortInput[c]) <= 0
                    => Compare(sortInput[a], sortInput[c]) <= 0
            /\ (\A a, b \in rows :
                    a # b => Compare(sortInput[a], sortInput[b]) # 0)
                => \A order \in IndexOrders(Len(sortInput)) :
                        ArraySort(Reordered(sortInput, order), sortState.column,
                                  sortState.direction) = {processed}

\* the rows the predicate compiled from a tree and a store accepts
Accepted(root, st) == FilterRows(CreateEvaluator(BuildFilterWithValues(root, st)))

\* a step that adds one condition to a group
AddsCondition(path) ==
    /\ Len(NodeIds(filterRoot')) = Len(NodeIds(filterRoot)) + 1
    /\ path \in GroupPaths(filterRoot)
    /\ AppendedTo(filterRoot, filterRoot', path)

\* C34 as stated: the predicate compiled after a step that adds a condition
\* to a group accepts exactly the rows the predicate compiled before it
\* accepts.
C34_AddConditionKeepsResult ==
    [][(\E path \in GroupPaths(filterRoot) : AddsCondition(path)) =>
            Accepted(filterRoot', store') = Accepted(filterRoot, store)]_vars

\* C34, amended: the predicate compiled after a step that adds a condition
\* accepts every row the predicate compiled before it accepts; it accepts
\* exactly these rows if the group is an AND group and the new condition's id
\* was not in the tree; an OR group accepts every row after the step; and an
\* apply by Enter publishes the predicate compiled from the tree of that moment.
C34_AddConditionNeverRejectsMore ==
    /\ [][\A path \in GroupPaths(filterRoot) : AddsCondition(path) =>
            /\ Accepted(filterRoot, store) \subseteq Accepted(filterRoot', store')
            /\ ( /\ NodeAt(filterRoot, path).operator = "AND"
                 /\ \A i \in 1..Len(NodeIds(filterRoot)) :
                        NodeIds(filterRoot)[i] # LastChild(filterRoot', path).id )
                    => Accepted(filterRoot', store') = Accepted(filterRoot, store)
            /\ NodeAt(filterRoot, path).operator = "OR" =>
                    \A row \in DataRows :
                        EvaluateNode(NodeAt(BuildFilterWithValues(filterRoot', store'),
                                            path), row) = Returned(TRUE)]_vars
    /\ [](lastEvent = "enter" /\ calls # <<>> => shown = Accepted(filterRoot, store))

\* the first condition has the pattern ^A, the root was made an OR group, a
\* condition with a new id was added to it and the filter was applied: the
\* published predicate accepts every row, among them one that ^A rejects
C34_Witness ==
    /\ lastEvent = "enter"
    /\ calls = <<"onFilterChange">>
    /\ filterRoot.operator = "OR"
    /\ Len(filterRoot.children) = 2
    /\ filterRoot.children[2] = Condition(9, "name", EmptyText, FALSE)
    /\ store[2].regex = Text_A
    /\ shown = DataRows
    /\ Accepted(Group(1, "OR", <<filterRoot.children[1]>>), store) # DataRows

\* C35: after every pointer move of an active drag the entries of the dragged
\* pair are the clamped redistribution of the pair's start widths for the
\* pointer's distance from the start of the drag; at distance 0, where the
\* pointer is back at the start, they are the start widths.
C35_WidthsFollowPointer ==
    resizeEvent = "move" /\ resizeData # NoResize /\ "mousemove" \in listeners =>
        LET delta == pointerX - resizeData.startX
            new == IF delta = 0
                   THEN <<resizeData.leftStartWidth, resizeData.rightStartWidth>>
                   ELSE ResizeWidths(resizeData.leftStartWidth,
                                     resizeData.rightStartWidth, delta,
                                     resizeData.minWidth)
        IN  /\ columnWidths[resizeData.leftColumn] = Px(new[1])
            /\ columnWidths[resizeData.rightColumn] = Px(new[2])

\* a reader of the quoting rule. A double quote opens a quoted field, two
\* double quotes inside it stand for one and one closes it, so a position is
\* outside the quoted fields when an even number of double quotes precedes it
Unquoted(text, i) ==
    Cardinality({j \in 1..(i - 1) : text[j] = DoubleQuote}) % 2 = 0

\* the line feeds that end a record, and the commas that end a field
RecordEnds(text) ==
    {i \in 1..Len(text) : text[i] = LineFeed /\ Unquoted(text, i)}
FieldEnds(text) ==
    {i \in 1..Len(text) : text[i] = Comma /\ Unquoted(text, i)}

\* the number of fields of the record that starts after position start
RecordSize(text, start) ==
    LET end == IF \E i \in RecordEnds(text) : i > start
               THEN CHOOSE i \in RecordEnds(text) :
                        /\ i > start
                        /\ \A k \in RecordEnds(text) : k > start => i <= k
               ELSE Len(text) + 1
    IN  1 + Cardinality({i \in FieldEnds(text) : start < i /\ i < end})

\* C36: read under the quoting rule, the file of an export has one record for
\* the header and one for every exported row, and every record, the header's
\* included, has as many fields as there are visible columns.
C36_EveryLineHasOneFieldPerColumn ==
    exported # NoDownload =>
        LET text == Tail(exported.content)
            starts == {0} \cup RecordEnds(text)
        IN  /\ exported.content[1] = ByteOrderMark
            /\ Cardinality(starts) = Len(ExportedRows) + 1
            /\ \A start \in starts : RecordSize(text, start) = Len(VisibleKeys)

\* C37: a reset of the filter of the table leaves the sort state unsorted,
\* whatever it was, publishes the predicate that accepts every row, and
\* changes neither the visible columns nor the width map.
C37_ResetUnsortsKeepsView ==
    [][Reset =>
            /\ sortState' = SortState(Null, Null)
            /\ published' = ConstTrue
            /\ visibleColumns' = visibleColumns
            /\ columnWidths' = columnWidths]_vars

\* the table was sorted descending by a header, its first column was hidden
\* and a drag gave two columns widths in pixels; after the reset it is
\* unsorted, the column is still hidden and the widths are those of the drag
C37_Witness ==
    /\ lastEvent = "reset"
    /\ clicked = "ok"
    /\ sortState = SortState(Null, Null)
    /\ visibleColumns = <<"n", "ok", "tag">>
    /\ columnWidths["n"] = Px(130)
    /\ columnWidths["ok"] = Px(70)
    /\ columnWidths["name"] = Percent(25)
    /\ Cardinality(observed) = 2

====
